---- MODULE Spec2Model ----
(***************************************************************************)
(* Model of the knowbrow backend:                                          *)
(*   - the Django write-back approval workflow (graphs/api_views.py),      *)
(*   - the FastAPI source resolution, adapter registry and search paths    *)
(*     (fastapi/main.py, fastapi/config_endpoints.py).                     *)
(* Strings that the code normalises (strip / lower / replace / fullmatch)  *)
(* are sequences of one-character strings, so the conversions are          *)
(* computed; opaque strings are TLA+ strings.                              *)
(***************************************************************************)
EXTENDS Naturals, Sequences, FiniteSets, TLC

VARIABLES
    wbRequests,   \* WriteBackRequest table: sequence of rows, index = pk, in creation order
    now,          \* timezone.now(), a logical clock advanced by every approve/reject save
    calls,        \* approve calls between their SELECT and their UPDATE (concurrent spec)
    djResponse,   \* the Django call last answered and its JsonResponse, or NoResponse
    internalKey,  \* os.environ INTERNAL_API_KEY of the Django process
    adapters,     \* adapter_registry.adapters: normalised key -> what the adapter was built from
    sourceRows,   \* DataSource table as /api/datasources/ serves it: sequence of rows, index = pk
    userAccess,   \* record store: the pks of the rows the authenticated API user may access
    searchReq,    \* the /api/search request in flight (position, resolved sources), or Idle
    invoked,      \* adapters whose search was called for the API request being served
    apiResponse,  \* the FastAPI call last answered and its response, or NoResponse
    backends,     \* what the backend behind an adapter key does when it is searched
    adapterConfigs \* per registered key, the endpoint_url of the config its adapter was built with

vars == <<wbRequests, now, calls, djResponse, internalKey,
          adapters, sourceRows, userAccess, searchReq, invoked, apiResponse, backends,
          adapterConfigs>>

djVars == <<wbRequests, now, calls, djResponse, internalKey>>
apiVars == <<adapters, sourceRows, userAccess, searchReq, invoked, apiResponse, backends,
             adapterConfigs>>

-----------------------------------------------------------------------------
(* Bounds of the model.                                                    *)

MaxRequests == 2      \* rows the WriteBackRequest table may hold
MaxTime == 2          \* approve/reject saves in one behaviour
MaxCalls == 2         \* approve calls in flight at once
MaxRequested == 2     \* length of the sources[] query parameter
MaxSources == 4       \* rows the DataSource table may hold
MaxStored == 2        \* records of the store when capabilities are asked

-----------------------------------------------------------------------------
(* String helpers: Python's str.strip, str.lower, str.replace.             *)

Absent == "<absent>"          \* a key that the JSON body / header set does not hold
NoResponse == [op |-> "none"]

UpperLetters == <<"A","B","C","D","E","F","G","H","I","J","K","L","M",
                  "N","O","P","Q","R","S","T","U","V","W","X","Y","Z">>
LowerLetters == <<"a","b","c","d","e","f","g","h","i","j","k","l","m",
                  "n","o","p","q","r","s","t","u","v","w","x","y","z">>
Letters == {UpperLetters[i] : i \in DOMAIN UpperLetters} \cup {LowerLetters[i] : i \in DOMAIN LowerLetters}
Digits == {"0","1","2","3","4","5","6","7","8","9"}
Whitespace == {" ", "\t", "\n"}

\* The characters of the model, in Python's order of str.
CharOrder ==
    <<"\t", "\n", " ", "%", "(", ")", "*", ".", "/",
      "0","1","2","3","4","5","6","7","8","9", ":", ";">>
    \o UpperLetters \o <<"_">> \o LowerLetters
Chars == {CharOrder[i] : i \in DOMAIN CharOrder}

\* str.lower, character by character
LowerChar ==
    [c \in Chars |->
        IF \E i \in DOMAIN UpperLetters : UpperLetters[i] = c
        THEN LowerLetters[CHOOSE i \in DOMAIN UpperLetters : UpperLetters[i] = c]
        ELSE c]

Lower(s) == [i \in DOMAIN s |-> LowerChar[s[i]]]

RECURSIVE LStrip(_)
LStrip(s) == IF s # <<>> /\ Head(s) \in Whitespace THEN LStrip(Tail(s)) ELSE s

RECURSIVE RStrip(_)
RStrip(s) ==
    IF s # <<>> /\ s[Len(s)] \in Whitespace THEN RStrip(SubSeq(s, 1, Len(s) - 1)) ELSE s

Strip(s) == RStrip(LStrip(s))

ReplaceChar(s, old, new) == [i \in DOMAIN s |-> IF s[i] = old THEN new ELSE s[i]]

\* str.upper, character by character
UpperChar ==
    [c \in Chars |->
        IF \E i \in DOMAIN LowerLetters : LowerLetters[i] = c
        THEN UpperLetters[CHOOSE i \in DOMAIN LowerLetters : LowerLetters[i] = c]
        ELSE c]

Upper(s) == [i \in DOMAIN s |-> UpperChar[s[i]]]

\* text.startswith(prefix)
StartsWith(text, prefix) ==
    Len(text) >= Len(prefix) /\ SubSeq(text, 1, Len(prefix)) = prefix

\* `sub in text`
Contains(text, sub) ==
    \E i \in 0..(Len(text) - Len(sub)) : SubSeq(text, i + 1, i + Len(sub)) = sub

\* re: \w
IsWordChar(c) == c \in Letters \cup Digits \cup {"_"}

\* re: \b after the character at place j (a word character)
BoundaryAfter(text, j) == j >= Len(text) \/ ~IsWordChar(text[j + 1])

\* re: \bword at place i
WordStartsAt(text, i, word) ==
    /\ i + Len(word) - 1 <= Len(text)
    /\ SubSeq(text, i, i + Len(word) - 1) = word
    /\ (i = 1 \/ ~IsWordChar(text[i - 1]))

\* re.sub(r'\s+', ' ', text)
RECURSIVE CollapseWhitespace(_)
CollapseWhitespace(text) ==
    IF text = <<>> THEN <<>>
    ELSE IF Head(text) \in Whitespace THEN <<" ">> \o CollapseWhitespace(LStrip(text))
    ELSE <<Head(text)>> \o CollapseWhitespace(Tail(text))

\* str.replace(old, new), from the left
RECURSIVE ReplaceAll(_, _, _)
ReplaceAll(text, old, new) ==
    IF text = <<>> THEN <<>>
    ELSE IF StartsWith(text, old)
    THEN new \o ReplaceAll(SubSeq(text, Len(old) + 1, Len(text)), old, new)
    ELSE <<Head(text)>> \o ReplaceAll(Tail(text), old, new)

\* The characters of chars are removed.
RemoveChars(text, chars) ==
    LET Kept(c) == c \notin chars IN SelectSeq(text, Kept)

\* re.fullmatch(r'[A-Za-z_][A-Za-z0-9_]*', s)
IsIdentifier(s) ==
    /\ Len(s) >= 1
    /\ s[1] \in Letters \cup {"_"}
    /\ \A i \in 2..Len(s) : s[i] \in Letters \cup Digits \cup {"_"}

-----------------------------------------------------------------------------
(* Django side: users, data sources, permission grants.                    *)

DjUsers == {"root", "alice", "bob", "carol", "dave"}
ActiveUsers == DjUsers \ {"dave"}
is_superuser(u) == u = "root"

\* DataSource rows: pk -> is_active, allow_write_back
DataSources ==
    [s1 |-> [is_active |-> TRUE,  allow_write_back |-> TRUE],
     s2 |-> [is_active |-> TRUE,  allow_write_back |-> FALSE],
     s3 |-> [is_active |-> FALSE, allow_write_back |-> TRUE]]
SourceIds == DOMAIN DataSources

\* DataSourcePermission rows: <<data_source, user, permission>>
DataSourcePermissions ==
    {<<"s1", "alice", "admin">>,
     <<"s1", "bob", "write_back">>, <<"s1", "bob", "query">>,
     <<"s2", "bob", "admin">>, <<"s2", "bob", "write_back">>,
     <<"s1", "carol", "view">>,
     <<"s3", "carol", "admin">>}

HasPermission(source, user, kinds) ==
    \E k \in kinds : <<source, user, k>> \in DataSourcePermissions

\* X-User-ID header values: Absent, or the header text. A user's name stands for the
\* decimal text of that user's pk; int() accepts surrounding whitespace.
XUserIdValues == {Absent, "", "abc", " bob ", "carol", "dave", "ghost"}

ParseUserPk(text) ==
    CASE text = " bob " -> "bob"
      [] text = "abc" -> "ValueError"
      [] OTHER -> text

\* The mutant: the header is honoured for every requester.
get_effective_user_mutant(requester, xuid) ==
    IF xuid # Absent /\ xuid # "" /\ ParseUserPk(xuid) \in ActiveUsers
    THEN ParseUserPk(xuid)
    ELSE requester

get_effective_user(requester, xuid) ==
    IF xuid # Absent /\ xuid # "" /\ is_superuser(requester) /\ ParseUserPk(xuid) \in ActiveUsers
    THEN ParseUserPk(xuid)
    ELSE requester

\* Every handler starts with user = _get_effective_user(request): the callers that
\* the requests of the model resolve to, over every logged-in requester and header.
EffectiveUsers ==
    {get_effective_user(requester, xuid) : requester \in ActiveUsers, xuid \in XUserIdValues}

-----------------------------------------------------------------------------
(* create_write_back_request: the JSON body.                               *)

Null == "<null>"
AbsentText == <<"<absent>">>      \* a text field that the JSON body does not hold

OpInsert == <<"i","n","s","e","r","t">>
OpUpdate == <<"u","p","d","a","t","e">>
OpDelete == <<"d","e","l","e","t","e">>
OpInsertRaw == <<" ","I","n","s","e","r","t"," ">>
OpDrop == <<"d","r","o","p">>
TableGoodRaw == <<" ","t","_","1"," ">>
TableDigitFirst == <<"1","t">>
TableInjection == <<"t",";","x">>

SourceIdInputs == SourceIds \cup {"s9", Absent}
OperationInputs == {OpInsert, OpInsertRaw, OpDrop, AbsentText}
TableNameInputs == {TableGoodRaw, TableDigitFirst, TableInjection, AbsentText}
NewValuesInputs == {"dict", "list", Absent}
OldValuesInputs == {Absent, Null, "dict", "str"}

AllPayloads ==
    [json : {TRUE}, source_id : SourceIdInputs, operation : OperationInputs,
     table_name : TableNameInputs, new_values : NewValuesInputs, old_values : OldValuesInputs]

\* A body that json.loads rejects.
InvalidJson ==
    [json |-> FALSE, source_id |-> Absent, operation |-> AbsentText, table_name |-> AbsentText,
     new_values |-> Absent, old_values |-> Absent]

\* A body that every check of the handler accepts.
GoodPayload ==
    [json |-> TRUE, source_id |-> "s1", operation |-> OpInsert, table_name |-> TableGoodRaw,
     new_values |-> "dict", old_values |-> Absent]

PayloadFields == {"source_id", "operation", "table_name", "new_values", "old_values"}

\* The bodies the model sends: GoodPayload, every body that differs from it in one
\* field, and a body that is no JSON.
CreatePayloads ==
    {p \in AllPayloads : \A f, g \in {h \in PayloadFields : p[h] # GoodPayload[h]} : f = g}
    \cup {InvalidJson}

\* A WriteBackRequest row as create() stores it; approved_at / executed_at 0 is NULL.
NewRequest(source, user, operation, table_name) ==
    [data_source |-> source, requested_by |-> user, operation |-> operation,
     table_name |-> table_name, status |-> "pending", rejection_reason |-> "",
     approved_by |-> Null, approved_at |-> 0,
     executed_at |-> 0, execution_result |-> Null]

\* An answer of a handler that stores nothing; checked is whether the handler came to
\* look at the caller's permissions.
Answer(code, error) == [code |-> code, error |-> error, rows |-> <<>>, checked |-> FALSE]
Denied(code, error) == [code |-> code, error |-> error, rows |-> <<>>, checked |-> TRUE]

MissingRequired(payload) ==
    \/ payload.source_id = Absent
    \/ payload.operation = AbsentText
    \/ payload.table_name = AbsentText
    \/ payload.new_values = Absent

\* The mutant: the handler without the allow_write_back check.
create_write_back_request_mutant(user, payload) ==
    IF ~payload.json THEN Answer(400, "Invalid JSON")
    ELSE IF MissingRequired(payload) THEN Answer(400, "Missing required fields")
    ELSE LET operation == Lower(Strip(payload.operation))
             table_name == Strip(payload.table_name) IN
    IF operation \notin {OpInsert, OpUpdate, OpDelete} THEN Answer(400, "Invalid operation")
    ELSE IF ~IsIdentifier(table_name) THEN Answer(400, "Invalid table_name")
    ELSE IF payload.new_values # "dict" THEN Answer(400, "new_values must be an object")
    ELSE IF payload.old_values \notin {Absent, Null, "dict"}
    THEN Answer(400, "old_values must be an object")
    ELSE IF payload.source_id \notin SourceIds \/ ~DataSources[payload.source_id].is_active
    THEN Answer(404, "Data source not found")
    ELSE IF ~(is_superuser(user)
              \/ HasPermission(payload.source_id, user, {"write_back", "admin"}))
    THEN Denied(403, "Permission denied")
    ELSE [code |-> 201, error |-> "", checked |-> TRUE,
          rows |-> <<NewRequest(payload.source_id, user, operation, table_name)>>]

\* The handler as a function of the request: the status code, the error and the rows
\* it inserts (none or one).
create_write_back_request(user, payload) ==
    IF ~payload.json THEN Answer(400, "Invalid JSON")
    ELSE IF MissingRequired(payload) THEN Answer(400, "Missing required fields")
    ELSE LET operation == Lower(Strip(payload.operation))
             table_name == Strip(payload.table_name) IN
    IF operation \notin {OpInsert, OpUpdate, OpDelete} THEN Answer(400, "Invalid operation")
    ELSE IF ~IsIdentifier(table_name) THEN Answer(400, "Invalid table_name")
    ELSE IF payload.new_values # "dict" THEN Answer(400, "new_values must be an object")
    ELSE IF payload.old_values \notin {Absent, Null, "dict"}
    THEN Answer(400, "old_values must be an object")
    ELSE IF payload.source_id \notin SourceIds \/ ~DataSources[payload.source_id].is_active
    THEN Answer(404, "Data source not found")
    ELSE IF ~DataSources[payload.source_id].allow_write_back
    THEN Answer(403, "Write-back not enabled for this source")
    ELSE IF ~(is_superuser(user)
              \/ HasPermission(payload.source_id, user, {"write_back", "admin"}))
    THEN Denied(403, "Permission denied")
    ELSE [code |-> 201, error |-> "", checked |-> TRUE,
          rows |-> <<NewRequest(payload.source_id, user, operation, table_name)>>]

\* POST /api/write-back-requests/; the answer is kept with the body of the call and,
\* when the handler came to check the caller's permissions, with the caller.
CreateWriteBackRequest ==
    /\ djResponse = NoResponse
    /\ \E user \in EffectiveUsers, payload \in CreatePayloads :
         LET r == create_write_back_request(user, payload) IN
         /\ Len(wbRequests) + Len(r.rows) <= MaxRequests
         /\ wbRequests' = wbRequests \o r.rows
         /\ djResponse' = [op |-> "create", user |-> IF r.checked THEN user ELSE Absent,
                           payload |-> payload, code |-> r.code, error |-> r.error]
    /\ UNCHANGED <<now, calls, internalKey>>
    /\ UNCHANGED apiVars

-----------------------------------------------------------------------------
(* approve_write_back_request.                                             *)

ActReject == <<"r","e","j","e","c","t">>
ActRejectRaw == <<"R","e","j","e","c","t">>
ActApprove == <<"a","p","p","r","o","v","e">>
ActDeny == <<"d","e","n","y">>

\* The JSON body: action (absent, or a text) and reason (absent, or a text).
ApproveBodies == [action : {AbsentText, ActRejectRaw, ActDeny}, reason : {Absent, "dup"}]

\* action = (payload.get('action') or 'approve').lower()
ApproveAction(body) == Lower(IF body.action = AbsentText THEN ActApprove ELSE body.action)

RequestIds == 1..(MaxRequests + 1)

\* if req.status not in {'pending', 'approved'}: refuse
TransitionAllowed(status) == status \in {"pending", "approved"}

\* The mutant: the admin check accepts a holder of write_back as well.
has_admin_permission_mutant(user, source) ==
    is_superuser(user) \/ HasPermission(source, user, {"admin", "write_back"})

has_admin_permission(user, source) ==
    is_superuser(user) \/ HasPermission(source, user, {"admin"})

\* The handler up to its status check, on the row its SELECT returned: the refusal it
\* answers, or code 200 when it goes on to save.
approve_check(user, request_id, table) ==
    IF request_id \notin DOMAIN table THEN [code |-> 404, error |-> "Request not found", status |-> ""]
    ELSE IF ~has_admin_permission(user, table[request_id].data_source)
    THEN [code |-> 403, error |-> "Permission denied", status |-> ""]
    ELSE IF ~TransitionAllowed(table[request_id].status)
    THEN [code |-> 400, error |-> "Cannot process request in status",
          status |-> table[request_id].status]
    ELSE [code |-> 200, error |-> "", status |-> ""]

\* The mutant: an approval that also runs the mutation.
approve_fields_mutant(action, reason, user, time) ==
    [status |-> IF action = ActReject THEN "rejected" ELSE "executed",
     rejection_reason |-> "", approved_by |-> user, approved_at |-> time]

\* The fields the handler sets on the row it loaded (lines 585-593).
approve_fields(action, reason, user, time) ==
    IF action = ActReject
    THEN [status |-> "rejected",
          rejection_reason |-> IF reason = Absent THEN "Rejected by approver" ELSE reason,
          approved_by |-> user, approved_at |-> time]
    ELSE [status |-> "approved", rejection_reason |-> "",
          approved_by |-> user, approved_at |-> time]

\* req.save(update_fields=[status, rejection_reason, approved_by, approved_at, updated_at]):
\* an UPDATE of these columns of the stored row.
save_update_fields(row, f) ==
    [row EXCEPT !.status = f.status, !.rejection_reason = f.rejection_reason,
                !.approved_by = f.approved_by, !.approved_at = f.approved_at]

\* POST /api/write-back-requests/<id>/approve/, one call served from start to end; the
\* answer is kept with the caller, the pk and, when the body was read, the action.
ApproveWriteBackRequest ==
    /\ djResponse = NoResponse
    /\ \E user \in EffectiveUsers, request_id \in RequestIds, body \in ApproveBodies :
         LET chk == approve_check(user, request_id, wbRequests)
             call == [op |-> "approve", user |-> user, request_id |-> request_id,
                      action |-> IF chk.code \in {403, 404} THEN AbsentText
                                 ELSE ApproveAction(body)]
         IN
         IF chk.code # 200
         THEN /\ djResponse' = call @@
                               [code |-> chk.code, error |-> chk.error, status |-> chk.status]
              /\ UNCHANGED <<wbRequests, now>>
         ELSE /\ now <= MaxTime
              /\ LET f == approve_fields(ApproveAction(body), body.reason, user, now) IN
                 /\ wbRequests' =
                      [wbRequests EXCEPT ![request_id] = save_update_fields(@, f)]
                 /\ djResponse' = call @@ [code |-> 200, error |-> "", status |-> f.status]
              /\ now' = now + 1
    /\ UNCHANGED <<calls, internalKey>>
    /\ UNCHANGED apiVars

-----------------------------------------------------------------------------
(* The same handler under concurrent calls: its SELECT and its UPDATE are   *)
(* separate database statements, with no transaction or row lock.          *)

IdleCall == [pc |-> "idle"]

\* The call slots are interchangeable: a new call takes the first idle one.
FirstIdle(c) == calls[c] = IdleCall /\ \A d \in 1..(c - 1) : calls[d] # IdleCall

\* The call up to its status check, on the row its SELECT returns: a refusal ends the
\* call (nothing is written), else the call holds what it is about to save.
ApproveLoad(c) ==
    /\ FirstIdle(c)
    /\ \E user \in EffectiveUsers, request_id \in RequestIds, body \in ApproveBodies :
         IF approve_check(user, request_id, wbRequests).code # 200
         THEN UNCHANGED calls
         ELSE calls' = [calls EXCEPT ![c] =
                          [pc |-> "loaded", user |-> user, request_id |-> request_id,
                           action |-> ApproveAction(body), reason |-> body.reason]]
    /\ UNCHANGED <<wbRequests, now, djResponse, internalKey>>
    /\ UNCHANGED apiVars

\* The call's UPDATE.
ApproveSave(c) ==
    /\ calls[c].pc = "loaded"
    /\ now <= MaxTime
    /\ wbRequests' =
         [wbRequests EXCEPT ![calls[c].request_id] =
            save_update_fields(@, approve_fields(calls[c].action, calls[c].reason,
                                                 calls[c].user, now))]
    /\ now' = now + 1
    /\ calls' = [calls EXCEPT ![c] = IdleCall]
    /\ UNCHANGED <<djResponse, internalKey>>
    /\ UNCHANGED apiVars

-----------------------------------------------------------------------------
(* write_back_requests_list, write_back_request_detail, sql_execute.       *)

ListLimit == 200      \* queryset.order_by('-created_at')[:200]

RECURSIVE Descending(_)
Descending(S) ==
    IF S = {} THEN <<>>
    ELSE LET m == CHOOSE x \in S : \A y \in S : y <= x IN <<m>> \o Descending(S \ {m})

Take(seq, n) == SubSeq(seq, 1, IF Len(seq) < n THEN Len(seq) ELSE n)

\* The mutant: a non-superuser is shown only the requests they created.
visible_request_ids_mutant(user, table) ==
    IF is_superuser(user) THEN DOMAIN table
    ELSE {i \in DOMAIN table : table[i].requested_by = user}

\* The queryset of the list view: all rows for a superuser, else the rows the user
\* requested united with the rows of the sources where the user holds admin.
visible_request_ids(user, table) ==
    IF is_superuser(user) THEN DOMAIN table
    ELSE LET admin_source_ids == {src \in SourceIds : <<src, user, "admin">> \in DataSourcePermissions}
         IN {i \in DOMAIN table : table[i].requested_by = user}
            \cup {i \in DOMAIN table : table[i].data_source \in admin_source_ids}

\* The pks the list view returns, newest first, at most ListLimit of them.
write_back_requests_list(user, table) == Take(Descending(visible_request_ids(user, table)), ListLimit)

can_view(user, row) ==
    is_superuser(user) \/ row.requested_by = user \/ HasPermission(row.data_source, user, {"admin"})

write_back_request_detail(user, request_id, table) ==
    IF request_id \notin DOMAIN table THEN 404
    ELSE IF ~can_view(user, table[request_id]) THEN 403
    ELSE 200

\* GET /api/write-back-requests/list/
WriteBackRequestsList ==
    /\ djResponse = NoResponse
    /\ \E user \in EffectiveUsers :
         djResponse' = [op |-> "list", user |-> user, code |-> 200,
                        ids |-> write_back_requests_list(user, wbRequests)]
    /\ UNCHANGED <<wbRequests, now, calls, internalKey>>
    /\ UNCHANGED apiVars

\* GET /api/write-back-requests/<id>/
WriteBackRequestDetail ==
    /\ djResponse = NoResponse
    /\ \E user \in EffectiveUsers, request_id \in RequestIds :
         LET code == write_back_request_detail(user, request_id, wbRequests) IN
         djResponse' = [op |-> "detail", user |-> user, request_id |-> request_id,
                        code |-> code,
                        data |-> IF code = 200 THEN <<wbRequests[request_id]>> ELSE <<>>]
    /\ UNCHANGED <<wbRequests, now, calls, internalKey>>
    /\ UNCHANGED apiVars

\* X-Internal-API-Key header values.
InternalKeyHeaders == {Absent, "", "k1", "k2"}

\* The mutant: a plain comparison, which an empty configured key passes.
has_valid_internal_key_mutant(expected, header) ==
    (IF header = Absent THEN "" ELSE header) = expected

has_valid_internal_key(expected, header) ==
    IF expected = "" THEN FALSE
    ELSE (IF header = Absent THEN "" ELSE header) = expected

sql_execute(expected, header) ==
    IF ~has_valid_internal_key(expected, header)
    THEN [code |-> 403, error |-> "Forbidden"]
    ELSE [code |-> 501, error |-> "Write execution not implemented in Django service"]

\* POST /api/internal/sql-execute/
SqlExecute ==
    /\ djResponse = NoResponse
    /\ \E header \in InternalKeyHeaders :
         LET r == sql_execute(internalKey, header) IN
         djResponse' = [op |-> "sql_execute", key |-> header, code |-> r.code, error |-> r.error]
    /\ UNCHANGED <<wbRequests, now, calls, internalKey>>
    /\ UNCHANGED apiVars

\* The query texts of the model.
QuerySelect == <<"S","E","L","E","C","T"," ","1">>
QuerySelectPadded == <<"\n"," ","s","e","l","e","c","t"," ","a","_","1">>
QueryTwoStatements == <<"S","E","L","E","C","T"," ","1",";","D","R","O","P"," ","t">>
QueryDrop == <<"D","R","O","P"," ","t">>
QuerySelectGlued == <<"s","e","l","e","c","t","a">>
QuerySearch == <<"S","e","a","r","c","h",":"," ","t">>
QuerySalary == <<"S","E","L","E","C","T"," ","S","A","L","A","R","Y">>
QueryPayRoll == <<"a","s","k"," ","p","a","y","_","r","o","l","l">>
QueryPayrollPlain == <<"A","S","K"," ","P","a","y","R","o","l","l">>
QueryEntity == <<"A","S","K"," ","k","n","o","w","b","r","o","w",":","Q","1">>
QuerySleep == <<"s","e","l","e","c","t"," ","p","g","_","s","l","e","e","p"," ","(","1",")">>
QueryCopy == <<"s","e","l","e","c","t"," ","1"," ","c","o","p","y">>
QueryOutfile == <<"s","e","l","e","c","t"," ","1"," ","i","n","t","o","\t","o","u","t","f","i","l","e">>
QueryTexts ==
    {QuerySelect, QuerySelectPadded, QueryTwoStatements, QueryDrop, QuerySelectGlued,
     QuerySearch, QuerySalary, QueryPayRoll, QueryPayrollPlain, QueryEntity,
     QuerySleep, QueryCopy, QueryOutfile}

WordSelect == <<"s","e","l","e","c","t">>

\* The bodies of POST /api/internal/sql-query/: no JSON, or a JSON object whose sql is
\* a text, or is not there.
SqlBodies == {[json |-> FALSE]} \cup [json : {TRUE}, sql : QueryTexts \cup {AbsentText, <<" ">>}]

\* re.search(r'\bname\s*\(', text)
CallsFunction(text, name) ==
    \E i \in DOMAIN text :
        /\ WordStartsAt(text, i, name)
        /\ StartsWith(LStrip(SubSeq(text, i + Len(name), Len(text))), <<"(">>)

\* re.search(r'\bword\b', text)
HasWord(text, word) ==
    \E i \in DOMAIN text : WordStartsAt(text, i, word) /\ BoundaryAfter(text, i + Len(word) - 1)

\* re.search(r'\binto\s+outfile\b', text)
HasIntoOutfile(text) ==
    \E i \in DOMAIN text :
        /\ WordStartsAt(text, i, <<"i","n","t","o">>)
        /\ LET rest == SubSeq(text, i + 4, Len(text)) IN
           /\ rest # <<>>
           /\ Head(rest) \in Whitespace
           /\ StartsWith(LStrip(rest), <<"o","u","t","f","i","l","e">>)
           /\ BoundaryAfter(LStrip(rest), 7)

\* any(re.search(pattern, normalized) for pattern in blocked_patterns)
blocked_patterns(normalized) ==
    \/ CallsFunction(normalized, <<"p","g","_","r","e","a","d","_","f","i","l","e">>)
    \/ CallsFunction(normalized, <<"p","g","_","l","s","_","d","i","r">>)
    \/ CallsFunction(normalized, <<"p","g","_","s","l","e","e","p">>)
    \/ CallsFunction(normalized, <<"d","b","l","i","n","k">>)
    \/ HasWord(normalized, <<"c","o","p","y">>)
    \/ HasIntoOutfile(normalized)

\* SET LOCAL statement_timeout, in milliseconds
StatementTimeout == 5000

\* The mutant: the statements are counted after the first is run.
sql_query_mutant(expected, header, body, db_ok) ==
    IF ~has_valid_internal_key(expected, header)
    THEN [code |-> 403, error |-> "Forbidden", executed |-> <<>>]
    ELSE IF ~body.json THEN [code |-> 400, error |-> "Invalid JSON", executed |-> <<>>]
    ELSE LET sql == Strip(IF body.sql = AbsentText THEN <<>> ELSE body.sql)
             lowered == Lower(sql)
             statement == [timeout |-> StatementTimeout, sql |-> sql]
         IN IF sql = <<>> THEN [code |-> 400, error |-> "Missing SQL", executed |-> <<>>]
            ELSE IF ~StartsWith(lowered, WordSelect)
            THEN [code |-> 400, error |-> "Only SELECT queries are allowed", executed |-> <<>>]
            ELSE IF \E i \in DOMAIN sql : sql[i] = ";"
            THEN [code |-> 400, error |-> "Multiple statements are not allowed",
                  executed |-> <<statement>>]
            ELSE IF blocked_patterns(CollapseWhitespace(lowered))
            THEN [code |-> 400, error |-> "Query contains blocked SQL pattern", executed |-> <<>>]
            ELSE IF db_ok THEN [code |-> 200, error |-> "", executed |-> <<statement>>]
            ELSE [code |-> 400, error |-> "str(exc)", executed |-> <<statement>>]

\* sql_query: the status, the error and the statements given to cursor.execute (each
\* under the statement timeout); db_ok is whether the database runs the statement
\* without raising.
sql_query(expected, header, body, db_ok) ==
    IF ~has_valid_internal_key(expected, header)
    THEN [code |-> 403, error |-> "Forbidden", executed |-> <<>>]
    ELSE IF ~body.json THEN [code |-> 400, error |-> "Invalid JSON", executed |-> <<>>]
    ELSE LET sql == Strip(IF body.sql = AbsentText THEN <<>> ELSE body.sql)
             lowered == Lower(sql)
             statement == [timeout |-> StatementTimeout, sql |-> sql]
         IN IF sql = <<>> THEN [code |-> 400, error |-> "Missing SQL", executed |-> <<>>]
            ELSE IF ~StartsWith(lowered, WordSelect)
            THEN [code |-> 400, error |-> "Only SELECT queries are allowed", executed |-> <<>>]
            ELSE IF \E i \in DOMAIN sql : sql[i] = ";"
            THEN [code |-> 400, error |-> "Multiple statements are not allowed", executed |-> <<>>]
            ELSE IF blocked_patterns(CollapseWhitespace(lowered))
            THEN [code |-> 400, error |-> "Query contains blocked SQL pattern", executed |-> <<>>]
            ELSE IF db_ok THEN [code |-> 200, error |-> "", executed |-> <<statement>>]
            ELSE [code |-> 400, error |-> "str(exc)", executed |-> <<statement>>]

\* POST /api/internal/sql-query/
SqlQuery ==
    /\ djResponse = NoResponse /\ apiResponse = NoResponse
    /\ \E header \in InternalKeyHeaders, body \in SqlBodies, db_ok \in BOOLEAN :
         LET r == sql_query(internalKey, header, body, db_ok) IN
         djResponse' = [op |-> "sql_query", key |-> header, body |-> body,
                        code |-> r.code, error |-> r.error, executed |-> r.executed]
    /\ UNCHANGED <<wbRequests, now, calls, internalKey>>
    /\ UNCHANGED apiVars

\* The client has read the answer; the next call may start.
ReturnResponse ==
    /\ djResponse # NoResponse
    /\ djResponse' = NoResponse
    /\ UNCHANGED <<wbRequests, now, calls, internalKey>>
    /\ UNCHANGED apiVars

-----------------------------------------------------------------------------
(* FastAPI side: names, the DataSource rows, the callers.                  *)

KeyWikidata == <<"w","i","k","i","d","a","t","a">>
KeyOxigraph == <<"o","x","i","g","r","a","p","h">>
KeyOntop == <<"o","n","t","o","p">>
NameWikidata == <<"W","i","k","i","d","a","t","a">>
NameLabDb == <<"L","a","b"," ","D","B">>
NameFiles == <<"F","i","l","e","s">>
NameLabKey == <<"l","a","b","_","d","b">>
NameLabUpper == <<"L","A","B"," ","D","B">>
NameLabPadded == <<" ","L","a","b"," ","D","B"," ">>
NameLabSpaced == <<" ","l","a","b"," ","d","b">>
NameGhost == <<"g","h","o","s","t">>
NameBlank == <<" ">>
DomainLab == <<"l","a","b">>
DomainPublicRaw == <<" ","P","u","b","l","i","c">>
DomainPublic == <<"p","u","b","l","i","c">>
DomainStar == <<"*">>
TypeWikidata == <<"w","i","k","i","d","a","t","a">>
TypeOxigraph == <<"o","x","i","g","r","a","p","h">>
TypeFuseki == <<"f","u","s","e","k","i">>
TypeOntop == <<"o","n","t","o","p">>
TypeDjangoDb == <<"d","j","a","n","g","o","_","d","b">>
TypeOls == <<"o","l","s">>
TypeOlsRaw == <<"O","L","S"," ">>
TypeCsv == <<"c","s","v">>

\* _normalize_source_name: (name or "").strip().lower().replace(" ", "_")
normalize_source_name(name) == ReplaceChar(Lower(Strip(name)), " ", "_")

\* The rows the table holds at the start; security_policy.is_public is "True", "False"
\* or Absent, query_domains the set of the listed domains.
SeedSources ==
    <<[name |-> NameWikidata, type |-> TypeWikidata,
       security_policy |-> [is_public |-> Absent, query_domains |-> {}]],
      [name |-> NameLabDb, type |-> TypeOntop,
       security_policy |-> [is_public |-> Absent, query_domains |-> {DomainLab}]],
      [name |-> NameFiles, type |-> TypeCsv,
       security_policy |-> [is_public |-> "True", query_domains |-> {}]]>>

\* The mutant: an ols source is public whatever its is_public says.
is_public_source_record_mutant(source) ==
    LET source_type == Lower(Strip(source.type))
        policy == source.security_policy
        normalized_domains ==
            {Lower(Strip(d)) : d \in {e \in policy.query_domains : Strip(e) # <<>>}}
    IN IF policy.is_public = "True" THEN TRUE
       ELSE IF DomainStar \in normalized_domains \/ DomainPublic \in normalized_domains THEN TRUE
       ELSE IF source_type = TypeOls THEN TRUE
       ELSE normalize_source_name(source.name) = KeyWikidata

\* _is_public_source_record
is_public_source_record(source) ==
    LET source_type == Lower(Strip(source.type))
        policy == source.security_policy
        normalized_domains ==
            {Lower(Strip(d)) : d \in {e \in policy.query_domains : Strip(e) # <<>>}}
    IN IF policy.is_public = "True" THEN TRUE
       ELSE IF DomainStar \in normalized_domains \/ DomainPublic \in normalized_domains THEN TRUE
       ELSE IF source_type = TypeOls THEN policy.is_public # "False"
       ELSE normalize_source_name(source.name) = KeyWikidata

\* Authorization header values; <<>> is no header (or an empty one).
AuthAlice == <<"B","e","a","r","e","r"," ","t","1">>
AuthAliceLower == <<"b","e","a","r","e","r"," "," ","t","1">>
AuthUnknown == <<"B","e","a","r","e","r"," ","z","9">>
AuthBasic == <<"B","a","s","i","c"," ","t","1">>
AuthHeaders == {<<>>, AuthAlice, AuthAliceLower, AuthUnknown, AuthBasic}

TokenBearer == <<"b","e","a","r","e","r">>
TokenAlice == <<"t","1">>
NoToken == <<>>

\* authorization.split(" ", 1): the text before the first space and the text after it
\* (no second part when there is no space).
SplitOnce(text) ==
    IF \E i \in DOMAIN text : text[i] = " "
    THEN LET i == CHOOSE j \in DOMAIN text :
                      text[j] = " " /\ \A k \in 1..(j - 1) : text[k] # " "
         IN <<SubSeq(text, 1, i - 1), SubSeq(text, i + 1, Len(text))>>
    ELSE <<text>>

\* _extract_bearer_token; NoToken is None
extract_bearer_token(authorization) ==
    IF authorization = <<>> THEN NoToken
    ELSE LET parts == SplitOnce(authorization) IN
         IF Len(parts) = 2 /\ Lower(parts[1]) = TokenBearer /\ Strip(parts[2]) # <<>>
         THEN Strip(parts[2])
         ELSE NoToken

\* _validate_user_token: the user_id of the payload, or "401" for a token that the
\* validation endpoint does not answer with 200.
validate_user_token(token) == IF token = TokenAlice THEN "alice" ELSE "401"

\* _resolve_request_user: "anonymous" is None
resolve_request_user(authorization) ==
    LET token == extract_bearer_token(authorization) IN
    IF token = NoToken THEN "anonymous" ELSE validate_user_token(token)

\* _fetch_accessible_sources_for_user: the pks of the rows of the answer; ok is whether
\* the store answered with 200. Without a user id the store answers for the service
\* account, which sees every row.
fetch_accessible_sources_for_user(user_id, ok, rows, access) ==
    IF ~ok THEN {}
    ELSE IF user_id = "anonymous" THEN DOMAIN rows
    ELSE access

-----------------------------------------------------------------------------
(* The adapter registry and the source resolution.                         *)

\* AdapterRegistry._adapter_classes
AdapterClasses == {TypeWikidata, TypeOxigraph, TypeOntop, TypeDjangoDb, TypeOls}

\* An adapter of the registry is the pk of the row it was built from; DefaultOrigin is
\* an adapter built at startup from a default config.
DefaultOrigin == 0

\* _initialize_default_adapters (the OLS and Django DB config modules are not there)
DefaultAdapters ==
    (KeyWikidata :> DefaultOrigin) @@ (KeyOxigraph :> DefaultOrigin) @@ (KeyOntop :> DefaultOrigin)

\* _ensure_adapter_for_source builds an adapter for the row (the key is not yet
\* registered): the name normalizes to a key and the type maps to an adapter class.
Buildable(source) ==
    /\ normalize_source_name(source.name) # <<>>
    /\ (IF source.type = TypeFuseki THEN TypeOxigraph ELSE source.type) \in AdapterClasses

\* The mutant: a record replaces the adapter that is registered under its key.
EnsureAdapters_mutant(registry, pks, rows) ==
    LET buildable == {i \in pks : Buildable(rows[i])}
        newKeys == {normalize_source_name(rows[i].name) : i \in buildable}
    IN {built @@ registry :
          built \in {f \in [newKeys -> buildable] :
                       \A k \in newKeys : normalize_source_name(rows[f[k]].name) = k}}

\* The registries that `for source in ...: _ensure_adapter_for_source(source)` can leave,
\* over the orders in which the store may list the rows: a registered key is kept, a
\* new key goes to the first buildable row that normalizes to it.
EnsureAdapters(registry, pks, rows) ==
    LET buildable == {i \in pks : Buildable(rows[i])}
        newKeys == {normalize_source_name(rows[i].name) : i \in buildable} \ DOMAIN registry
    IN {registry @@ built :
          built \in {f \in [newKeys -> buildable] :
                       \A k \in newKeys : normalize_source_name(rows[f[k]].name) = k}}

\* The endpoint_url of the connection_config of a record ("none" without one), and
\* of the default configs of startup.
EndpointOf(source) ==
    IF "connection_config" \in DOMAIN source THEN source.connection_config.endpoint_url
    ELSE "none"
DefaultConfigs == [k \in DOMAIN DefaultAdapters |-> "default"]

\* adapter_class(config): the adapter of a key that is new in the registry holds the
\* config of the record it was built from; a registered adapter keeps its config.
BuiltConfigs(registry, configs, rows) ==
    [k \in DOMAIN registry |->
        IF k \in DOMAIN configs THEN configs[k] ELSE EndpointOf(rows[registry[k]])]

\* The place of a character in Python's order of str.
Rank == [c \in Chars |-> CHOOSE i \in DOMAIN CharOrder : CharOrder[i] = c]

RECURSIVE LexLess(_, _)
LexLess(a, b) ==
    IF b = <<>> THEN FALSE
    ELSE IF a = <<>> THEN TRUE
    ELSE IF Head(a) = Head(b) THEN LexLess(Tail(a), Tail(b))
    ELSE Rank[Head(a)] < Rank[Head(b)]

\* sorted(set_of_names)
RECURSIVE Sorted(_)
Sorted(S) ==
    IF S = {} THEN <<>>
    ELSE LET m == CHOOSE x \in S : \A y \in S \ {x} : LexLess(x, y)
         IN <<m>> \o Sorted(S \ {m})

RECURSIVE MapNormalize(_)
MapNormalize(names) ==
    IF names = <<>> THEN <<>>
    ELSE <<normalize_source_name(Head(names))>> \o MapNormalize(Tail(names))

IsBlank(name) == Strip(name) = <<>>
NotBlank(name) == ~IsBlank(name)

\* normalized_requested of a sources[] parameter that is given and not empty
normalized_requested(requested_sources) == MapNormalize(SelectSeq(requested_sources, NotBlank))

\* The mutant: the error names the first offending source only.
forbidden_sources_mutant(requested, allowed) ==
    LET NotAllowed(name) == name \notin allowed
        all == SelectSeq(requested, NotAllowed)
    IN IF all = <<>> THEN <<>> ELSE <<all[1]>>

\* forbidden = [source for source in normalized_requested if source not in allowed]
forbidden_sources(requested, allowed) ==
    LET NotAllowed(name) == name \notin allowed IN SelectSeq(requested, NotAllowed)

\* _resolve_sources_for_request on the store's answer: the status code, the text and
\* the names of the HTTPException (200: none), the sources it returns, the names it
\* holds accessible and the pks of the rows it ensures adapters for.
resolve_sources_for_request(requested_sources, authorization, ok, rows, access) ==
    LET user == resolve_request_user(authorization)
        fetched == fetch_accessible_sources_for_user(user, ok, rows, access)
        accepted == IF user = "anonymous"
                    THEN {i \in fetched : is_public_source_record(rows[i])}
                    ELSE fetched
        names == {normalize_source_name(rows[i].name) : i \in accepted} \ {<<>>}
        given == requested_sources # <<>>
        requested == normalized_requested(requested_sources)
        forbidden == forbidden_sources(requested, names)
    IN IF user = "401"
       THEN [code |-> 401, error |-> "Invalid token", detail |-> <<>>, sources |-> <<>>,
             accessible |-> {}, ensure |-> {}]
       ELSE IF given /\ forbidden # <<>>
       THEN [code |-> IF user = "anonymous" THEN 401 ELSE 403,
             error |-> IF user = "anonymous" THEN "Authentication required for sources"
                       ELSE "Access denied for sources",
             detail |-> forbidden, sources |-> <<>>, accessible |-> names, ensure |-> accepted]
       ELSE [code |-> 200, error |-> "", detail |-> <<>>,
             sources |-> IF given THEN requested ELSE Sorted(names),
             accessible |-> names, ensure |-> accepted]

-----------------------------------------------------------------------------
(* The FastAPI endpoints and the creation of sources.                      *)

ApiIdle == [pc |-> "idle"]

\* One client: a request starts when the answer of the last one has been read.
ClientIdle == djResponse = NoResponse /\ apiResponse = NoResponse /\ searchReq = ApiIdle

\* Values of the sources[] query parameter; <<>> is no parameter.
RequestedNames == {NameWikidata, NameLabSpaced, NameGhost, NameBlank}
RequestedLists == UNION {[1..n -> RequestedNames] : n \in 0..MaxRequested}

\* Values of the limit query parameter (1 to 50).
Limits == {1, 3}

\* An optional number is <<>> (None) or <<n>>; `x or 0`.
OrZero(x) == IF x = <<>> THEN 0 ELSE x[1]

\* A result of an adapter search: the fields of QuickSearchResult that the endpoint reads.
Hit(id, confidence, relevance_score) ==
    [id |-> id, confidence |-> confidence, relevance_score |-> relevance_score]

\* adapter.search(query, limit) behind a registered key: it raises or returns results.
Raises == [raises |-> TRUE, results |-> <<>>]
Returns(results) == [raises |-> FALSE, results |-> results]
QuietBackends == <<>>
adapter_search(source) ==
    IF source \in DOMAIN backends THEN backends[source] ELSE Returns(<<>>)

\* key=lambda x: (x.confidence or 0, x.relevance_score or 0)
SortKey(x) == <<OrZero(x.confidence), OrZero(x.relevance_score)>>
KeyLess(a, b) == a[1] < b[1] \/ (a[1] = b[1] /\ a[2] < b[2])

\* list.sort(key=..., reverse=True): descending keys, equal keys in their first order.
RECURSIVE SortDescending(_)
SortDescending(list) ==
    IF list = <<>> THEN <<>>
    ELSE LET front == SortDescending(SubSeq(list, 1, Len(list) - 1))
             last == list[Len(list)]
             ahead == Cardinality({k \in DOMAIN front : ~KeyLess(SortKey(front[k]), SortKey(last))})
         IN SubSeq(front, 1, ahead) \o <<last>> \o SubSeq(front, ahead + 1, Len(front))

\* The mutant: the results are cut to the limit before they are sorted.
search_results_mutant(all_results, limit) == SortDescending(Take(all_results, limit))

\* all_results.sort(...); return all_results[:limit]
search_results(all_results, limit) == Take(SortDescending(all_results), limit)

\* GET /api/search up to its loop: the sources are resolved (and the adapters of the
\* accepted rows ensured); an HTTPException of the resolution is the answer.
SearchResolve ==
    /\ ClientIdle
    /\ \E authorization \in AuthHeaders, sources \in RequestedLists, ok \in BOOLEAN,
          limit \in Limits :
         LET r == resolve_sources_for_request(sources, authorization, ok, sourceRows, userAccess)
         IN /\ adapters' \in EnsureAdapters(adapters, r.ensure, sourceRows)
            /\ adapterConfigs' = BuiltConfigs(adapters', adapterConfigs, sourceRows)
            /\ IF r.code # 200
               THEN /\ apiResponse' = [op |-> "search", authorization |-> authorization,
                                       requested |-> sources, code |-> r.code, error |-> r.error,
                                       detail |-> r.detail, accessible |-> r.accessible]
                    /\ UNCHANGED searchReq
               ELSE /\ searchReq' = [pc |-> "dispatch", authorization |-> authorization,
                                     requested |-> sources, accessible |-> r.accessible,
                                     sources |-> r.sources, next |-> 1,
                                     limit |-> limit, all_results |-> <<>>]
                    /\ UNCHANGED apiResponse
    /\ UNCHANGED <<sourceRows, userAccess, backends, invoked>>
    /\ UNCHANGED djVars

\* The mutant: a search that raises loses what the earlier sources returned.
extend_results_mutant(all_results, answer) ==
    IF answer.raises THEN <<>> ELSE all_results \o answer.results

\* try: all_results.extend(await adapter.search(query, limit)) except Exception: continue
extend_results(all_results, answer) ==
    IF answer.raises THEN all_results ELSE all_results \o answer.results

\* One round of `for source in sources`: the adapter is looked up and searched and
\* its results are added; a source without adapter (get_adapter raises) or whose
\* search raises is skipped.
SearchDispatch ==
    /\ searchReq.pc = "dispatch"
    /\ searchReq.next <= Len(searchReq.sources)
    /\ LET source == searchReq.sources[searchReq.next]
           answer == adapter_search(source)
       IN IF source \in DOMAIN adapters
          THEN /\ invoked' = Append(invoked, [caller |-> searchReq.authorization,
                                              source |-> source, origin |-> adapters[source],
                                              raised |-> answer.raises])
               /\ searchReq' = [searchReq EXCEPT
                                  !.next = @ + 1,
                                  !.all_results = extend_results(@, answer)]
          ELSE /\ invoked' = invoked
               /\ searchReq' = [searchReq EXCEPT !.next = @ + 1]
    /\ UNCHANGED <<adapters, adapterConfigs, sourceRows, userAccess, backends, apiResponse>>
    /\ UNCHANGED djVars

\* The loop is over: the results are returned.
SearchReturn ==
    /\ searchReq.pc = "dispatch"
    /\ searchReq.next > Len(searchReq.sources)
    /\ apiResponse' = [op |-> "search", authorization |-> searchReq.authorization,
                       requested |-> searchReq.requested, code |-> 200, error |-> "",
                       detail |-> <<>>, accessible |-> searchReq.accessible,
                       sources |-> searchReq.sources, limit |-> searchReq.limit,
                       results |-> search_results(searchReq.all_results, searchReq.limit)]
    /\ searchReq' = ApiIdle
    /\ UNCHANGED <<adapters, adapterConfigs, sourceRows, userAccess, backends, invoked>>
    /\ UNCHANGED djVars

\* GET /api/data-sources: the names of the listed sources, or the HTTPException.
get_data_sources(authorization, ok, rows, access) ==
    LET user == resolve_request_user(authorization)
        fetched == fetch_accessible_sources_for_user(user, ok, rows, access)
        accepted == IF user = "anonymous"
                    THEN {i \in fetched : is_public_source_record(rows[i])}
                    ELSE fetched
    IN IF user = "401"
       THEN [code |-> 401, error |-> "Invalid token", names |-> <<>>, ensure |-> {}]
       ELSE [code |-> 200, error |-> "",
             names |-> Sorted({normalize_source_name(rows[i].name) : i \in accepted}),
             ensure |-> accepted]

GetDataSources ==
    /\ ClientIdle
    /\ \E authorization \in AuthHeaders, ok \in BOOLEAN :
         LET r == get_data_sources(authorization, ok, sourceRows, userAccess) IN
         /\ adapters' \in EnsureAdapters(adapters, r.ensure, sourceRows)
         /\ adapterConfigs' = BuiltConfigs(adapters', adapterConfigs, sourceRows)
         /\ apiResponse' = [op |-> "data_sources", authorization |-> authorization, ok |-> ok,
                            code |-> r.code, error |-> r.error, names |-> r.names]
    /\ UNCHANGED <<sourceRows, userAccess, backends, searchReq, invoked>>
    /\ UNCHANGED djVars

BearerPrefix == <<"B","e","a","r","e","r"," ">>

\* get_user_token: the token of the Authorization header, NoToken for its HTTPException
\* (401); the token is not validated.
get_user_token(authorization) ==
    IF StartsWith(authorization, BearerPrefix)
    THEN <<SubSeq(authorization, Len(BearerPrefix) + 1, Len(authorization))>>
    ELSE NoToken

\* Values of the source query parameter of /api/search/configured; <<>> is none.
ConfiguredSources == {<<>>, KeyOntop, NameLabDb}

\* GET /api/search/configured: the sources whose adapter is searched (search_with_config
\* answers [] for a name that get_adapter does not find).
search_configured(source, registry) ==
    IF source = <<>> THEN Sorted(DOMAIN registry)
    ELSE IF source \in DOMAIN registry THEN <<source>> ELSE <<>>

SearchConfigured ==
    /\ ClientIdle
    /\ \E authorization \in AuthHeaders, source \in ConfiguredSources :
         IF get_user_token(authorization) = NoToken
         THEN /\ apiResponse' = [op |-> "search_configured", authorization |-> authorization,
                                 code |-> 401, error |-> "No authentication token provided"]
              /\ invoked' = <<>>
         ELSE /\ apiResponse' = [op |-> "search_configured", authorization |-> authorization,
                                 code |-> 200, error |-> ""]
              /\ invoked' = [k \in DOMAIN search_configured(source, adapters) |->
                               [caller |-> authorization,
                                source |-> search_configured(source, adapters)[k],
                                origin |-> adapters[search_configured(source, adapters)[k]]]]
    /\ UNCHANGED <<adapters, adapterConfigs, sourceRows, userAccess, backends, searchReq>>
    /\ UNCHANGED djVars

\* POST /api/datasources/ (data_sources_list): the body.
CreateSourceNames == {NameLabKey, NameLabUpper, NameLabPadded, NameBlank}
CreateSourcePolicies ==
    {[is_public |-> Absent, query_domains |-> {DomainLab}],
     [is_public |-> Absent, query_domains |-> {DomainLab, DomainPublicRaw}]}
CreateSourceBodies ==
    [type : {TypeOntop, TypeCsv}, name : CreateSourceNames, security_policy : CreateSourcePolicies]

\* The handler on a JSON body with a security_policy that lists its query_domains:
\* the status code, the error and the rows it inserts (none or one). in_domains is
\* the answer of ConfigurationService._user_in_allowed_domains.
create_data_source(user, in_domains, payload, rows) ==
    IF Lower(Strip(payload.type)) # TypeOntop THEN Answer(400, "Only Ontop source creation is supported")
    ELSE IF ~(is_superuser(user) \/ in_domains) THEN Denied(403, "Permission denied")
    ELSE IF Strip(payload.name) = <<>> THEN Answer(400, "Name is required")
    ELSE IF \E i \in DOMAIN rows : rows[i].name = Strip(payload.name)
    THEN Answer(400, "A datasource with this name already exists")
    ELSE [code |-> 201, error |-> "", checked |-> TRUE,
          rows |-> <<[name |-> Strip(payload.name), type |-> TypeOntop,
                      security_policy |-> payload.security_policy]>>]

\* The API user is the Django user alice: the creator is granted query and view on
\* the new row, which the store then lists for them.
CreateDataSource ==
    /\ ClientIdle
    /\ \E user \in {"root", "alice"}, in_domains \in BOOLEAN, payload \in CreateSourceBodies :
         LET r == create_data_source(user, in_domains, payload, sourceRows) IN
         /\ Len(sourceRows) + Len(r.rows) <= MaxSources
         /\ sourceRows' = sourceRows \o r.rows
         /\ userAccess' = IF r.code = 201 /\ user = "alice"
                          THEN userAccess \cup {Len(sourceRows) + 1}
                          ELSE userAccess
         /\ djResponse' = [op |-> "create_source", code |-> r.code, error |-> r.error]
    /\ UNCHANGED <<wbRequests, now, calls, internalKey>>
    /\ UNCHANGED <<adapters, adapterConfigs, searchReq, invoked, apiResponse, backends>>

-----------------------------------------------------------------------------
(* GET /api/capabilities.                                                  *)

\* The records that the store may hold when capabilities are asked: a record of the
\* store's answer also tells allow_write_back and what the store grants on the source
\* (can_admin, can_manage).
Record(name, type, is_public, query_domains, allow_write_back, can_admin, can_manage) ==
    [name |-> name, type |-> type,
     security_policy |-> [is_public |-> is_public, query_domains |-> query_domains],
     allow_write_back |-> allow_write_back, can_admin |-> can_admin, can_manage |-> can_manage]

CapabilityRecords ==
    <<Record(NameWikidata, TypeOntop, Absent, {}, FALSE, FALSE, FALSE),
     Record(NameLabDb, TypeOntop, Absent, {DomainLab}, FALSE, FALSE, FALSE),
     Record(NameLabDb, TypeOntop, Absent, {DomainLab, DomainPublicRaw}, FALSE, FALSE, FALSE),
     Record(NameLabDb, TypeOntop, "False", {DomainStar}, FALSE, FALSE, FALSE),
     Record(NameLabUpper, TypeOntop, "True", {DomainLab}, TRUE, FALSE, FALSE),
     Record(NameFiles, TypeOlsRaw, Absent, {}, FALSE, FALSE, FALSE),
     Record(NameFiles, TypeOlsRaw, "False", {DomainLab}, FALSE, FALSE, FALSE),
     Record(NameFiles, TypeOls, Null, {}, FALSE, TRUE, FALSE),
     Record(NameBlank, TypeOntop, "True", {}, FALSE, FALSE, FALSE),
     Record(NameLabDb, TypeOntop, Absent, {DomainLab}, TRUE, FALSE, FALSE),
     Record(NameLabDb, TypeOntop, Absent, {DomainLab}, FALSE, TRUE, FALSE),
     Record(NameLabDb, TypeOntop, Absent, {DomainLab}, TRUE, TRUE, FALSE),
     Record(NameLabDb, TypeOntop, Absent, {DomainLab}, TRUE, FALSE, TRUE)>>

\* The tables of up to MaxStored of these records.
CapabilityTables ==
    {[k \in DOMAIN pick |-> CapabilityRecords[pick[k]]] :
       pick \in {p \in UNION {[1..n -> DOMAIN CapabilityRecords] : n \in 1..MaxStored} :
                   \A i, j \in DOMAIN p : i < j => p[i] < p[j]}}

\* The orders in which the store may list the rows pks.
Orders(pks) ==
    {order \in [1..Cardinality(pks) -> pks] :
       \A i, j \in 1..Cardinality(pks) : order[i] = order[j] => i = j}

\* The mutant: duplicates are dropped, the names are left in the order given.
RECURSIVE sorted_unique_mutant(_)
sorted_unique_mutant(values) ==
    IF values = <<>> THEN <<>>
    ELSE LET rest == sorted_unique_mutant(SubSeq(values, 1, Len(values) - 1))
             last == values[Len(values)]
         IN IF last = <<>> \/ \E k \in DOMAIN rest : rest[k] = last
            THEN rest ELSE Append(rest, last)

\* _sorted_unique: sorted({v for v in values if v})
sorted_unique(values) == Sorted({values[k] : k \in DOMAIN values} \ {<<>>})

\* [_normalize_source_name(source.get("name", "")) for source in records]
RECURSIVE NormalizedNames(_)
NormalizedNames(records) ==
    IF records = <<>> THEN <<>>
    ELSE <<normalize_source_name(Head(records).name)>> \o NormalizedNames(Tail(records))

\* The mutant: every listed source is held public.
public_names_mutant(records) == sorted_unique(NormalizedNames(records))

\* public_names of get_capabilities
public_names(records) ==
    sorted_unique(NormalizedNames(SelectSeq(records, is_public_source_record)))

\* private_names of get_capabilities
private_names(accessible_names, public) ==
    LET NotPublic(name) == \A k \in DOMAIN public : public[k] # name
    IN sorted_unique(SelectSeq(accessible_names, NotPublic))

\* The mutant: write-back on one source and admin or manage on any source.
can_write_back_mutant(records) ==
    /\ \E k \in DOMAIN records : records[k].allow_write_back
    /\ \E k \in DOMAIN records : records[k].can_admin \/ records[k].can_manage

\* can_write_back of get_capabilities
can_write_back(records) ==
    \E k \in DOMAIN records :
        records[k].allow_write_back /\ (records[k].can_admin \/ records[k].can_manage)

\* can_manage_sources of get_capabilities
can_manage_sources(records) ==
    \E k \in DOMAIN records : records[k].can_admin \/ records[k].can_manage

\* The mutant: the private names are told to every caller.
snapshot_sources_mutant(authenticated, public, private, accessible) ==
    [public |-> public, private |-> private, accessible |-> accessible]

\* "sources" of the snapshot
snapshot_sources(authenticated, public, private, accessible) ==
    [public |-> public,
     private |-> IF authenticated THEN private ELSE <<>>,
     accessible |-> IF authenticated THEN accessible ELSE public]

\* get_capabilities on the store's answer (records, in the order listed): the snapshot,
\* or the HTTPException of a token that does not validate.
get_capabilities(authorization, records) ==
    LET token == extract_bearer_token(authorization)
        user == IF token = NoToken THEN "anonymous" ELSE validate_user_token(token)
        accessible_names == sorted_unique(NormalizedNames(records))
        public == public_names(records)
        private == private_names(accessible_names, public)
        authenticated == user # "anonymous"
    IN IF user = "401" THEN [code |-> 401, error |-> "Invalid token"]
       ELSE [code |-> 200, error |-> "",
             authenticated |-> authenticated,
             mode |-> IF authenticated THEN "integrated" ELSE "demo",
             user |-> IF authenticated THEN user ELSE Null,
             features |->
                 [can_view_public |-> TRUE,
                  can_view_private |-> authenticated /\ private # <<>>,
                  can_save_graphs |-> authenticated,
                  can_share_graphs |-> authenticated,
                  can_write_back |-> authenticated /\ can_write_back(records),
                  can_manage_sources |-> authenticated /\ can_manage_sources(records)],
             sources |-> snapshot_sources(authenticated, public, private, accessible_names)]

\* The handler: the token is validated first, then the store is asked; answer is the
\* pks of the rows in the order the store lists them.
GetCapabilities ==
    /\ ClientIdle
    /\ \E authorization \in AuthHeaders, ok \in BOOLEAN :
         LET user == resolve_request_user(authorization)
             fetched == fetch_accessible_sources_for_user(user, ok, sourceRows, userAccess)
         IN \E answer \in Orders(fetched) :
              apiResponse' = [op |-> "capabilities", authorization |-> authorization,
                              answer |-> IF user = "401" THEN <<>> ELSE answer,
                              snapshot |-> get_capabilities(authorization,
                                                [k \in DOMAIN answer |-> sourceRows[answer[k]]])]
    /\ UNCHANGED <<adapters, adapterConfigs, sourceRows, userAccess, backends, searchReq, invoked>>
    /\ UNCHANGED djVars

-----------------------------------------------------------------------------
(* POST /internal/query: the unified query and its backend handlers.       *)

TypeExternalApi == <<"e","x","t","e","r","n","a","l","_","a","p","i">>
NameAppDb == <<"A","p","p"," ","D","B">>
NameHr == <<"H","R">>
NamePay == <<"P","a","y">>
NameStore == <<"S","t","o","r","e">>

\* A record of the store as _fetch_data_source_for_user returns it.
QuerySource(name, type, sparql_terms, table_patterns, can_admin) ==
    [name |-> name, type |-> type,
     security_policy |-> [is_public |-> Absent, query_domains |-> {DomainLab},
                          admin_only_sparql_terms |-> sparql_terms,
                          admin_only_table_patterns |-> table_patterns],
     can_admin |-> can_admin]

\* The sources of the store when queries are sent: the internal database, ontop
\* sources with admin-only terms (for a caller without and with admin rights), with
\* admin-only table patterns and without either (under a name that normalizes as the
\* name of another), a triple store, a source of a type without handler and wikidata.
QuerySources ==
    <<QuerySource(NameAppDb, TypeDjangoDb, <<>>, <<>>, FALSE),
      QuerySource(NameLabDb, TypeOntop, <<<<" ","S","a","l","a","r","y"," ">>, <<" ">>>>, <<<<"p","a","y","_","r","o","l","l","%">>>>, FALSE),
      QuerySource(NameHr, TypeOntop, <<<<" ","S","a","l","a","r","y"," ">>, <<" ">>>>, <<<<"p","a","y","_","r","o","l","l","%">>>>, TRUE),
      QuerySource(NamePay, TypeOntop, <<>>, <<<<"%">>, <<" ","P","a","y","_","R","o","l","l","%">>>>, FALSE),
      QuerySource(NameLabUpper, TypeOntop, <<>>, <<>>, FALSE),
      QuerySource(NameStore, TypeFuseki, <<>>, <<>>, FALSE),
      QuerySource(NameGhost, TypeCsv, <<>>, <<>>, FALSE),
      QuerySource(NameWikidata, TypeExternalApi, <<>>, <<>>, FALSE)>>

\* INTERNAL_API_KEY of the FastAPI process
FastApiInternalKey == "k1"

\* The keys of a success answer, and of the error answers of the handlers.
SuccessKeys == {"results", "total", "source_type", "status"}
ErrorKeys == {"error", "detail"}

\* The answer of a handler: the error ("" when status is success), the calls it sent
\* out, in order, and the keys of the JSON object.
Envelope(error, outbound) ==
    [error |-> error, outbound |-> outbound,
     keys |-> IF error = "" THEN SuccessKeys ELSE ErrorKeys]

\* A success answer of a backend handler also tells the execution_time.
Timed(envelope) ==
    [envelope EXCEPT !.keys = IF envelope.error = "" THEN @ \cup {"execution_time"} ELSE @]

\* except HTTPException as e: return {"error": e.detail}
HttpErrorEnvelope(detail) == [error |-> detail, outbound |-> <<>>, keys |-> {"error"}]

\* re.match(r"^\s*(prefix|select|ask|construct|describe)\b", query_text, re.IGNORECASE)
SparqlKeywords == {<<"p","r","e","f","i","x">>, <<"s","e","l","e","c","t">>, <<"a","s","k">>, <<"c","o","n","s","t","r","u","c","t">>, <<"d","e","s","c","r","i","b","e">>}
is_sparql_query(query_text) ==
    LET text == Lower(LStrip(query_text)) IN
    \E keyword \in SparqlKeywords :
        StartsWith(text, keyword) /\ BoundaryAfter(text, Len(keyword))

\* _is_sql_select
is_sql_select(query_text) ==
    LET text == Lower(LStrip(query_text)) IN
    /\ StartsWith(text, WordSelect) /\ BoundaryAfter(text, Len(WordSelect))
    /\ \A i \in DOMAIN query_text : query_text[i] # ";"

\* _to_term_from_pattern: re.sub(r"[%*_]", "", pattern.strip().lower())
to_term_from_pattern(pattern) == RemoveChars(Lower(Strip(pattern)), {"%", "*", "_"})

\* The mutant: the query text is searched as it is written.
query_mentions_admin_term_mutant(query_text, terms) ==
    \E k \in DOMAIN terms :
        LET normalized == Lower(Strip(terms[k])) IN
        normalized # <<>> /\ Contains(query_text, normalized)

\* _query_mentions_admin_term
query_mentions_admin_term(query_text, terms) ==
    LET lowered == Lower(query_text) IN
    \E k \in DOMAIN terms :
        LET normalized == Lower(Strip(terms[k])) IN
        normalized # <<>> /\ Contains(lowered, normalized)

\* The mutant: the terms of the table patterns are added to the terms of the policy.
admin_only_terms_mutant(security_policy) ==
    LET NotEmpty(term) == term # <<>>
        patterns == security_policy.admin_only_table_patterns
    IN security_policy.admin_only_sparql_terms
         \o SelectSeq([k \in DOMAIN patterns |-> to_term_from_pattern(patterns[k])], NotEmpty)

\* admin_only_terms of query_ontop: the terms of the policy, or without any the
\* terms of its table patterns that are not empty.
admin_only_terms(security_policy) ==
    LET NotEmpty(term) == term # <<>>
        patterns == security_policy.admin_only_table_patterns
    IN IF security_policy.admin_only_sparql_terms # <<>>
       THEN security_policy.admin_only_sparql_terms
       ELSE SelectSeq([k \in DOMAIN patterns |-> to_term_from_pattern(patterns[k])], NotEmpty)

\* query_django_db: db_ok is whether the database runs the statement; the call to
\* Django is answered by sql_query.
query_django_db(sql, expected, db_ok) ==
    IF ~is_sql_select(sql) THEN Envelope("Unsupported query", <<>>) @@ [executed |-> <<>>]
    ELSE LET r == sql_query(expected, FastApiInternalKey, [json |-> TRUE, sql |-> sql], db_ok) IN
         Timed(Envelope(IF r.code # 200 THEN "Query failed" ELSE "",
                        <<[target |-> "sql-query", content |-> sql]>>))
             @@ [executed |-> r.executed]

\* query_oxigraph: up is whether the endpoint answers 200.
query_oxigraph(sparql, up) ==
    IF ~is_sparql_query(sparql) THEN Envelope("Unsupported query", <<>>)
    ELSE Timed(Envelope(IF up THEN "" ELSE "Oxigraph query failed",
                        <<[target |-> "oxigraph", content |-> sparql]>>))

\* query_external_api on a source without api_url; the wikidata adapter is searched
\* for a text that is no SPARQL.
query_external_api(sparql, source_data, up, registry) ==
    IF ~Contains(Lower(source_data.name), KeyWikidata)
    THEN Envelope("Unsupported API", <<>>)
    ELSE IF is_sparql_query(sparql)
    THEN Timed(Envelope(IF up THEN "" ELSE "External API query failed",
                  <<[target |-> "wikidata-sparql",
                     content |-> ReplaceAll(sparql, <<"k","n","o","w","b","r","o","w",":">>,
                                            <<"h","t","t","p",":","/","/","w","w","w",".","w","i","k","i","d","a","t","a",".","o","r","g","/","e","n","t","i","t","y","/">>)]>>))
    ELSE IF KeyWikidata \notin DOMAIN registry
    THEN Envelope("External API query failed", <<>>)
    ELSE Timed(Envelope(IF adapter_search(KeyWikidata).raises
                        THEN "External API query failed" ELSE "",
                        <<[target |-> "adapter", content |-> KeyWikidata]>>))

\* query_ontop: up is whether the endpoint answers 200.
query_ontop(sparql, source_data, up) ==
    LET terms == admin_only_terms(source_data.security_policy) IN
    IF ~is_sparql_query(sparql) THEN Envelope("Unsupported query", <<>>)
    ELSE IF /\ terms # <<>>
            /\ ~source_data.can_admin
            /\ query_mentions_admin_term(sparql, terms)
    THEN Envelope("Ontop policy restriction", <<>>)
    ELSE Timed(Envelope(IF up THEN "" ELSE "Ontop query failed",
                        <<[target |-> "ontop", content |-> sparql]>>))

\* Values of query_type.
QueryTypes == {<<"S","P","A","R","Q","L">>, <<"s","e","a","r","c","h">>}
WordSearch == <<"S","E","A","R","C","H">>
SearchMarker == <<"s","e","a","r","c","h",":">>

\* The adapter-driven search mode of unified_query.
query_search(query, source_data, registry) ==
    LET source_name == normalize_source_name(source_data.name) IN
    IF source_name \notin DOMAIN registry THEN Envelope("Search failed", <<>>)
    ELSE Envelope(IF adapter_search(source_name).raises THEN "Search failed" ELSE "",
                  <<[target |-> "adapter", content |-> source_name]>>)

\* The mutant: an ontop source is handled by its type before the search intent is
\* looked at.
unified_query_mutant(user, found, source_data, query_type, query, up, expected, registry) ==
    LET NoStatement(envelope) == envelope @@ [executed |-> <<>>] IN
    IF user = "unreachable" THEN NoStatement(Envelope("Service unavailable", <<>>))
    ELSE IF user = "401" THEN NoStatement(HttpErrorEnvelope("Invalid token"))
    ELSE IF ~found
    THEN NoStatement(HttpErrorEnvelope("Data source not found or inaccessible"))
    ELSE IF source_data.type = TypeOntop THEN NoStatement(query_ontop(query, source_data, up))
    ELSE IF Upper(query_type) = WordSearch \/ StartsWith(Lower(query), SearchMarker)
    THEN NoStatement(query_search(query, source_data, registry))
    ELSE IF source_data.type = TypeDjangoDb THEN query_django_db(query, expected, up)
    ELSE IF source_data.type \in {TypeFuseki, TypeOxigraph}
    THEN NoStatement(query_oxigraph(query, up))
    ELSE IF source_data.type = TypeExternalApi
    THEN NoStatement(query_external_api(query, source_data, up, registry))
    ELSE NoStatement(Envelope("Unsupported source", <<>>))

\* unified_query after the token was validated (user) and the source fetched (found):
\* registry is the adapter registry after _ensure_adapter_for_source. The user is
\* "unreachable" when the call to Django raises httpx.RequestError.
unified_query(user, found, source_data, query_type, query, up, expected, registry) ==
    LET NoStatement(envelope) == envelope @@ [executed |-> <<>>] IN
    IF user = "unreachable" THEN NoStatement(Envelope("Service unavailable", <<>>))
    ELSE IF user = "401" THEN NoStatement(HttpErrorEnvelope("Invalid token"))
    ELSE IF ~found
    THEN NoStatement(HttpErrorEnvelope("Data source not found or inaccessible"))
    ELSE IF Upper(query_type) = WordSearch \/ StartsWith(Lower(query), SearchMarker)
    THEN NoStatement(query_search(query, source_data, registry))
    ELSE IF source_data.type = TypeDjangoDb THEN query_django_db(query, expected, up)
    ELSE IF source_data.type \in {TypeFuseki, TypeOxigraph}
    THEN NoStatement(query_oxigraph(query, up))
    ELSE IF source_data.type = TypeExternalApi
    THEN NoStatement(query_external_api(query, source_data, up, registry))
    ELSE IF source_data.type = TypeOntop THEN NoStatement(query_ontop(query, source_data, up))
    ELSE NoStatement(Envelope("Unsupported source", <<>>))

TokenUnknown == <<"z","9">>

\* POST /internal/query
UnifiedQuery ==
    /\ ClientIdle
    /\ \E token \in {TokenAlice, TokenUnknown}, source_id \in 1..(Len(sourceRows) + 1),
          query_type \in QueryTypes, query \in QueryTexts, up \in BOOLEAN,
          reachable \in BOOLEAN :
         LET user == IF reachable THEN validate_user_token(token) ELSE "unreachable"
             found == user \notin {"401", "unreachable"} /\ source_id \in userAccess
             source_data == IF found THEN sourceRows[source_id] ELSE sourceRows[1]
         IN /\ adapters' \in EnsureAdapters(adapters, IF found THEN {source_id} ELSE {}, sourceRows)
            /\ adapterConfigs' = BuiltConfigs(adapters', adapterConfigs, sourceRows)
            /\ LET r == unified_query(user, found, source_data, query_type, query, up,
                                      internalKey, adapters')
               IN apiResponse' = [op |-> "query", token |-> token, source_id |-> source_id,
                                  query_type |-> query_type, query |-> query,
                                  reachable |-> reachable,
                                  error |-> r.error, outbound |-> r.outbound,
                                  executed |-> r.executed, keys |-> r.keys]
    /\ UNCHANGED <<sourceRows, userAccess, backends, searchReq, invoked>>
    /\ UNCHANGED djVars

-----------------------------------------------------------------------------
(* Re-initialization of the adapter registry and updates of a source's     *)
(* configuration.                                                          *)

\* The endpoint_url of the stored configs, and the one that updates send.
EndpointStored == "e1"
EndpointSent == "e2"

\* The Authorization headers of the requests that change the registry or a config.
ConfigAuthHeaders == {<<>>, AuthAlice, AuthUnknown}

\* A record of the store with its connection_config and what the store grants the
\* API user on it.
ConfiguredSource(name, type, endpoint_url, can_manage) ==
    [name |-> name, type |-> type,
     security_policy |-> [is_public |-> Absent, query_domains |-> {DomainLab}],
     connection_config |-> [endpoint_url |-> endpoint_url],
     can_manage |-> can_manage, can_admin |-> FALSE]

\* The sources of the store when the registry is re-initialized: an ontop source
\* that the API user manages and wikidata.
RegistrySources ==
    <<ConfiguredSource(NameLabDb, TypeOntop, EndpointStored, TRUE),
      ConfiguredSource(NameWikidata, TypeWikidata, EndpointStored, FALSE)>>

\* AdapterRegistry.initialize_adapters from self.adapters.clear() on, for the configs
\* that the config service returned (the rows pks, each with source_type as its
\* type): an adapter per config of a known class, under config['name'].
initialize_from_configs(pks, rows) ==
    LET known == {i \in pks : rows[i].type \in AdapterClasses}
        names == {rows[i].name : i \in known}
    IN [name \in names |-> CHOOSE i \in known : rows[i].name = name]

\* AdapterRegistry.initialize_adapters: the registry it leaves. ok is whether the
\* config service answered 200; an exception of get_data_source_configs (before the
\* registry is cleared) falls back to _initialize_default_adapters, which sets the
\* default keys and keeps the others.
initialize_adapters(token, ok, registry, pks, rows) ==
    IF validate_user_token(token) = "401" \/ ~ok THEN DefaultAdapters @@ registry
    ELSE initialize_from_configs(pks, rows)

\* The configs of the adapters after initialize_adapters: every adapter that it
\* registered was built anew.
InitializedConfigs(token, ok, registry, configs, rows) ==
    IF validate_user_token(token) = "401" \/ ~ok THEN DefaultConfigs @@ configs
    ELSE [k \in DOMAIN registry |-> EndpointOf(rows[registry[k]])]

\* POST /api/adapters/initialize. get_data_source_configs is awaited first; clearing
\* and rebuilding run without an await, as one step between the steps of the
\* requests in flight.
InitializeAdapters ==
    /\ djResponse = NoResponse
    /\ \E authorization \in ConfigAuthHeaders, ok \in BOOLEAN :
         /\ get_user_token(authorization) # NoToken
         /\ LET token == get_user_token(authorization)[1] IN
            /\ adapters' = initialize_adapters(token, ok, adapters, userAccess, sourceRows)
            /\ adapterConfigs' = InitializedConfigs(token, ok, adapters', adapterConfigs,
                                                    sourceRows)
    /\ UNCHANGED <<sourceRows, userAccess, backends, searchReq, invoked, apiResponse>>
    /\ UNCHANGED djVars

\* The rows after the store saved endpoint_url in the connection_config of row pk.
SaveEndpoint(rows, pk, endpoint_url) ==
    [rows EXCEPT ![pk].connection_config.endpoint_url = endpoint_url]

\* POST /api/config/sources/{source_id} (update_data_source_config): the store
\* answers 200 and saves, or refuses (saved); after a 200 the adapters are
\* initialized again.
UpdateDataSourceConfig ==
    /\ djResponse = NoResponse
    /\ \E authorization \in ConfigAuthHeaders, source_id \in DOMAIN sourceRows,
          endpoint_url \in {EndpointSent}, saved \in BOOLEAN, ok \in BOOLEAN :
         /\ get_user_token(authorization) # NoToken
         /\ LET token == get_user_token(authorization)[1]
                valid == validate_user_token(token) # "401"
            IN IF valid /\ saved /\ source_id \in userAccess
               THEN /\ sourceRows' = SaveEndpoint(sourceRows, source_id, endpoint_url)
                    /\ adapters' = initialize_adapters(token, ok, adapters, userAccess,
                                                       sourceRows')
                    /\ adapterConfigs' = InitializedConfigs(token, ok, adapters',
                                                            adapterConfigs, sourceRows')
               ELSE UNCHANGED <<sourceRows, adapters, adapterConfigs>>
    /\ UNCHANGED <<userAccess, backends, searchReq, invoked, apiResponse>>
    /\ UNCHANGED djVars

\* Values of the source_name path parameter.
UpdateSourceNames == {NameLabSpaced, NameWikidata, NameGhost, NameBlank}

\* update_ontop_config with an endpoint_url and no policy field: the status code and
\* the row whose config is posted to the store (0 for none).
update_ontop_config(source_name, authorization, ok, rows, access) ==
    LET normalized_name == normalize_source_name(source_name)
        user == resolve_request_user(authorization)
        accessible == fetch_accessible_sources_for_user(user, ok, rows, access)
        matching == {i \in accessible : normalize_source_name(rows[i].name) = normalized_name}
        pk == CHOOSE i \in matching : \A j \in matching : i <= j
    IN IF normalized_name = <<>> THEN [code |-> 400, pk |-> 0]
       ELSE IF user \in {"anonymous", "401"} THEN [code |-> 401, pk |-> 0]
       ELSE IF matching = {} THEN [code |-> 404, pk |-> 0]
       ELSE IF rows[pk].type # TypeOntop THEN [code |-> 400, pk |-> 0]
       ELSE IF ~rows[pk].can_manage THEN [code |-> 403, pk |-> 0]
       ELSE [code |-> 200, pk |-> pk]

\* POST /api/data-sources/{source_name}/ontop-config: the store saves the config
\* (saved) or refuses; the adapter registry is not touched.
UpdateOntopConfig ==
    /\ djResponse = NoResponse
    /\ \E source_name \in UpdateSourceNames, authorization \in ConfigAuthHeaders,
          ok \in BOOLEAN, endpoint_url \in {EndpointSent}, saved \in BOOLEAN :
         LET r == update_ontop_config(source_name, authorization, ok, sourceRows, userAccess)
         IN IF r.code = 200 /\ saved
            THEN sourceRows' = SaveEndpoint(sourceRows, r.pk, endpoint_url)
            ELSE UNCHANGED sourceRows
    /\ UNCHANGED <<adapters, adapterConfigs, userAccess, backends, searchReq, invoked,
                   apiResponse>>
    /\ UNCHANGED djVars

\* The client has read the answer of the API; the request is over.
ReturnApiResponse ==
    /\ apiResponse # NoResponse
    /\ apiResponse' = NoResponse
    /\ invoked' = <<>>
    /\ UNCHANGED <<adapters, adapterConfigs, sourceRows, userAccess, backends, searchReq>>
    /\ UNCHANGED djVars

-----------------------------------------------------------------------------
(* Specifications.                                      *)

InitApiQuiet ==
    /\ adapters = <<>>
    /\ adapterConfigs = <<>>
    /\ sourceRows = SeedSources
    /\ userAccess = {}
    /\ searchReq = ApiIdle
    /\ invoked = <<>>
    /\ apiResponse = NoResponse
    /\ backends = QuietBackends

InitWriteBack ==
    /\ wbRequests = <<>>
    /\ now = 1
    /\ calls = [c \in 1..MaxCalls |-> IdleCall]
    /\ djResponse = NoResponse
    /\ internalKey = "k1"
    /\ InitApiQuiet

\* One call at a time: every handler runs from start to end.
NextWriteBack ==
    \/ CreateWriteBackRequest
    \/ ApproveWriteBackRequest
    \/ WriteBackRequestsList
    \/ WriteBackRequestDetail
    \/ SqlExecute
    \/ ReturnResponse

SpecWriteBack == InitWriteBack /\ [][NextWriteBack]_vars

\* Concurrent approve/reject calls, interleaved at their database statements, on
\* requests that were created while no approval call was in progress.
NextApproveRace ==
    \/ (\A c \in 1..MaxCalls : calls[c] = IdleCall) /\ CreateWriteBackRequest
    \/ djResponse = NoResponse /\ \E c \in 1..MaxCalls : ApproveLoad(c)
    \/ djResponse = NoResponse /\ \E c \in 1..MaxCalls : ApproveSave(c)
    \/ ReturnResponse

SpecApproveRace == InitWriteBack /\ [][NextApproveRace]_vars

\* The API after startup_event, over the rows that the store lists for the API user.
InitSearch ==
    /\ wbRequests = <<>>
    /\ now = 1
    /\ calls = [c \in 1..MaxCalls |-> IdleCall]
    /\ djResponse = NoResponse
    /\ internalKey = "k1"
    /\ adapters = DefaultAdapters
    /\ adapterConfigs = DefaultConfigs
    /\ sourceRows = SeedSources
    /\ userAccess \in {{1}, {1, 2, 3}}
    /\ searchReq = ApiIdle
    /\ invoked = <<>>
    /\ apiResponse = NoResponse
    /\ backends = QuietBackends

NextSearch ==
    \/ SearchResolve
    \/ SearchDispatch
    \/ SearchReturn
    \/ GetDataSources
    \/ SearchConfigured
    \/ CreateDataSource
    \/ ReturnApiResponse
    \/ ReturnResponse

SpecSearch == InitSearch /\ [][NextSearch]_vars

\* What the backends of the search adapters may do: the knowledge base and the lab
\* database each answer two results or fail.
WikidataHits == <<Hit("w1", <<9>>, <<1>>), Hit("w2", <<3>>, <<>>)>>
LabHits == <<Hit("l1", <<5>>, <<>>), Hit("l2", <<>>, <<2>>)>>
LabHitsTied == <<Hit("l1", <<9>>, <<>>), Hit("l2", <<3>>, <<2>>)>>
BackendCases ==
    {(KeyWikidata :> w) @@ (NameLabKey :> l) :
       w \in {Raises, Returns(WikidataHits)},
       l \in {Raises, Returns(LabHits), Returns(LabHitsTied)}}

\* The API after startup_event; the API user is listed every row.
InitFanOut ==
    /\ wbRequests = <<>>
    /\ now = 1
    /\ calls = [c \in 1..MaxCalls |-> IdleCall]
    /\ djResponse = NoResponse
    /\ internalKey = "k1"
    /\ adapters = DefaultAdapters
    /\ adapterConfigs = DefaultConfigs
    /\ sourceRows = SeedSources
    /\ userAccess = DOMAIN SeedSources
    /\ searchReq = ApiIdle
    /\ invoked = <<>>
    /\ apiResponse = NoResponse
    /\ backends \in BackendCases

NextFanOut ==
    \/ SearchResolve
    \/ SearchDispatch
    \/ SearchReturn
    \/ ReturnApiResponse

SpecFanOut == InitFanOut /\ [][NextFanOut]_vars

\* The API and the Django service over the sources of QuerySources; the API user is
\* listed every source, or every source but the last.
InitQuery ==
    /\ wbRequests = <<>>
    /\ now = 1
    /\ calls = [c \in 1..MaxCalls |-> IdleCall]
    /\ djResponse = NoResponse
    /\ internalKey = "k1"
    /\ adapters = DefaultAdapters
    /\ adapterConfigs = DefaultConfigs
    /\ sourceRows = QuerySources
    /\ userAccess \in {DOMAIN QuerySources, DOMAIN QuerySources \ {Len(QuerySources)}}
    /\ searchReq = ApiIdle
    /\ invoked = <<>>
    /\ apiResponse = NoResponse
    /\ backends \in {QuietBackends, KeyWikidata :> Raises}

NextQuery ==
    \/ UnifiedQuery
    \/ SqlQuery
    \/ ReturnApiResponse
    \/ ReturnResponse

SpecQuery == InitQuery /\ [][NextQuery]_vars

\* The API after startup_event over the sources of RegistrySources, which the store
\* lists all for the API user: searches, re-initializations of the registry and
\* updates of the configuration interleave.
InitRegistry ==
    /\ wbRequests = <<>>
    /\ now = 1
    /\ calls = [c \in 1..MaxCalls |-> IdleCall]
    /\ djResponse = NoResponse
    /\ internalKey = "k1"
    /\ adapters = DefaultAdapters
    /\ adapterConfigs = DefaultConfigs
    /\ sourceRows = RegistrySources
    /\ userAccess = DOMAIN RegistrySources
    /\ searchReq = ApiIdle
    /\ invoked = <<>>
    /\ apiResponse = NoResponse
    /\ backends = QuietBackends

NextRegistry ==
    \/ SearchResolve
    \/ SearchDispatch
    \/ SearchReturn
    \/ ReturnApiResponse
    \/ InitializeAdapters
    \/ UpdateDataSourceConfig
    \/ UpdateOntopConfig

SpecRegistry == InitRegistry /\ [][NextRegistry]_vars

\* The API over a store that holds up to MaxStored records; the API user is listed
\* every row, or every row but one.
InitCapabilities ==
    /\ wbRequests = <<>>
    /\ now = 1
    /\ calls = [c \in 1..MaxCalls |-> IdleCall]
    /\ djResponse = NoResponse
    /\ internalKey = "k1"
    /\ adapters = DefaultAdapters
    /\ adapterConfigs = DefaultConfigs
    /\ sourceRows \in CapabilityTables
    /\ userAccess \in {DOMAIN sourceRows} \cup {DOMAIN sourceRows \ {k} : k \in DOMAIN sourceRows}
    /\ searchReq = ApiIdle
    /\ invoked = <<>>
    /\ apiResponse = NoResponse
    /\ backends = QuietBackends

NextCapabilities ==
    \/ GetCapabilities
    \/ GetDataSources
    \/ ReturnApiResponse

SpecCapabilities == InitCapabilities /\ [][NextCapabilities]_vars

-----------------------------------------------------------------------------
(* The write-back workflow: what the contract says of it.                  *)

\* The stored requests that a step keeps are those of DOMAIN wbRequests: rows are
\* appended, never deleted.
StatusNeverGoes(from, to) ==
    \A i \in DOMAIN wbRequests :
        wbRequests[i].status = from => wbRequests'[i].status # to

\* C1: under interleaved approve/reject calls, a request whose stored status is
\* rejected never afterwards becomes approved.
C1_RejectedNeverApproved == [][StatusNeverGoes("rejected", "approved")]_vars

\* C2: a request that has been approved is never afterwards rejected.
C2_ApprovedNeverRejected == [][StatusNeverGoes("approved", "rejected")]_vars

\* The caller may decide on the requests of the source: superuser, or admin on it.
MayDecide(user, source) ==
    is_superuser(user) \/ <<source, user, "admin">> \in DataSourcePermissions

\* A step that serves one approve/reject call on a stored request.
ApproveCallOn(status) ==
    /\ djResponse = NoResponse
    /\ djResponse'.op = "approve"
    /\ djResponse'.request_id \in DOMAIN wbRequests
    /\ wbRequests[djResponse'.request_id].status = status

\* C3: an approve or reject call by an authorized caller on a rejected request fails
\* with Conflict (HTTP 409) naming the current status, and leaves the request as it is.
C3_RejectedIsConflict ==
    [][(/\ ApproveCallOn("rejected")
        /\ MayDecide(djResponse'.user, wbRequests[djResponse'.request_id].data_source))
       => /\ djResponse'.code = 409
          /\ djResponse'.status = "rejected"
          /\ wbRequests' = wbRequests]_vars

\* What the contract asks of a creation request, stated on the request itself.
ValidCreateInput(p) ==
    /\ p.json
    /\ p.operation # AbsentText
    /\ Lower(Strip(p.operation)) \in {OpInsert, OpUpdate, OpDelete}
    /\ p.table_name # AbsentText
    /\ IsIdentifier(Strip(p.table_name))
    /\ p.new_values = "dict"
    /\ p.old_values \in {Absent, Null, "dict"}

SourceTakesWriteBack(source) ==
    /\ source \in SourceIds
    /\ DataSources[source].is_active
    /\ DataSources[source].allow_write_back

MayRequest(user, source) ==
    \/ is_superuser(user)
    \/ <<source, user, "write_back">> \in DataSourcePermissions
    \/ <<source, user, "admin">> \in DataSourcePermissions

\* C4: a creation call stores one new request, in status pending, exactly when its
\* input is valid, its source exists, is active and takes write-back, and the caller is
\* superuser or holds write_back or admin on the source; every other call is answered
\* with an error and leaves the stored requests as they are.
C4_CreateExactlyWhenAllowed ==
    [][(djResponse = NoResponse /\ djResponse'.op = "create")
       => LET p == djResponse'.payload
              user == djResponse'.user
              n == Len(wbRequests)
          IN IF /\ ValidCreateInput(p)
                /\ SourceTakesWriteBack(p.source_id)
                /\ MayRequest(user, p.source_id)
             THEN /\ djResponse'.code = 201
                  /\ Len(wbRequests') = n + 1
                  /\ SubSeq(wbRequests', 1, n) = wbRequests
                  /\ wbRequests'[n + 1].status = "pending"
                  /\ wbRequests'[n + 1].data_source = p.source_id
                  /\ wbRequests'[n + 1].requested_by = user
             ELSE /\ djResponse'.code \in {400, 403, 404}
                  /\ wbRequests' = wbRequests]_vars

\* A holder of write_back alone has created a request, stored as pending.
C4_Witness ==
    /\ djResponse.op = "create"
    /\ djResponse.code = 201
    /\ djResponse.user = "bob"
    /\ wbRequests[Len(wbRequests)].status = "pending"
    /\ wbRequests[Len(wbRequests)].requested_by = "bob"

\* C5: an approve/reject call changes a request only when the caller is superuser or
\* holds admin on the request's own source; any other caller is answered permission
\* denied and the request is left as it is. No other step changes a status.
C5_OnlyAdminDecides ==
    [][/\ (djResponse = NoResponse /\ djResponse'.op = "approve"
           /\ djResponse'.request_id \in DOMAIN wbRequests)
          => IF MayDecide(djResponse'.user, wbRequests[djResponse'.request_id].data_source)
             THEN djResponse'.code # 403
             ELSE /\ djResponse'.code = 403
                  /\ djResponse'.error = "Permission denied"
                  /\ wbRequests' = wbRequests
       /\ \A i \in DOMAIN wbRequests :
            wbRequests'[i] # wbRequests[i]
            => /\ djResponse'.op = "approve"
               /\ djResponse'.request_id = i
               /\ MayDecide(djResponse'.user, wbRequests[i].data_source)]_vars

\* The requester, who holds write_back but not admin on the source, was denied the
\* decision on their own pending request.
C5_Witness ==
    /\ djResponse.op = "approve"
    /\ djResponse.code = 403
    /\ djResponse.user = "bob"
    /\ djResponse.request_id \in DOMAIN wbRequests
    /\ wbRequests[djResponse.request_id].requested_by = "bob"
    /\ wbRequests[djResponse.request_id].data_source = "s1"
    /\ wbRequests[djResponse.request_id].status = "pending"

NeverExecuted ==
    \A i \in DOMAIN wbRequests :
        /\ wbRequests[i].status \in {"pending", "approved", "rejected"}
        /\ wbRequests[i].executed_at = 0
        /\ wbRequests[i].execution_result = Null

\* C6 as stated: every status is pending, approved or rejected, no request carries an
\* execution time or result, and sql_execute always answers not-implemented.
C6_AlwaysNotImplemented ==
    /\ NeverExecuted
    /\ djResponse.op = "sql_execute" => djResponse.code = 501

\* C6, amended: every status is pending, approved or rejected and no request carries an
\* execution time or result; sql_execute touches no state and answers Forbidden (403)
\* unless the call carries the configured internal key, and not-implemented (501) if
\* it does.
C6_NeverExecutes ==
    /\ []NeverExecuted
    /\ [][(djResponse = NoResponse /\ djResponse'.op = "sql_execute")
          => /\ wbRequests' = wbRequests
             /\ now' = now
             /\ internalKey' = internalKey
             /\ djResponse'.code =
                  IF internalKey # "" /\ djResponse'.key = internalKey THEN 501 ELSE 403]_vars

\* sql_execute has refused a call without the internal key while an approved
\* request was stored.
C6_Witness ==
    /\ djResponse.op = "sql_execute"
    /\ djResponse.code = 403
    /\ \E i \in DOMAIN wbRequests :
         wbRequests[i].status = "approved" /\ wbRequests[i].executed_at = 0

MayView(user, row) ==
    \/ is_superuser(user)
    \/ row.requested_by = user
    \/ <<row.data_source, user, "admin">> \in DataSourcePermissions

-----------------------------------------------------------------------------
(* Source authorization of the API: what the contract says of it.          *)

IsAnonymous(authorization) == extract_bearer_token(authorization) = NoToken

PublicRows == {i \in DOMAIN sourceRows : is_public_source_record(sourceRows[i])}

NamesOf(pks) == {normalize_source_name(sourceRows[i].name) : i \in pks}

\* The names of the sources that the caller may access: the public ones for a caller
\* without bearer token, the ones the store lists for the user of a valid token.
AccessibleNames(authorization) ==
    IF IsAnonymous(authorization) THEN NamesOf(PublicRows)
    ELSE IF validate_user_token(extract_bearer_token(authorization)) = "401" THEN {}
    ELSE NamesOf(userAccess)

\* C8: on every path that searches adapters, an adapter is searched only for a source
\* of the caller's accessible set.
C8_DispatchOnlyAccessible ==
    \A k \in DOMAIN invoked : invoked[k].source \in AccessibleNames(invoked[k].caller)

\* C9: a caller without bearer token is returned names of public sources only, by the
\* resolution and by /api/data-sources, and no private source is searched for them.
C9_AnonymousOnlyPublic ==
    /\ (apiResponse.op = "data_sources" /\ IsAnonymous(apiResponse.authorization))
       => \A k \in DOMAIN apiResponse.names : apiResponse.names[k] \in NamesOf(PublicRows)
    /\ (searchReq.pc = "dispatch" /\ IsAnonymous(searchReq.authorization))
       => \A k \in DOMAIN searchReq.sources : searchReq.sources[k] \in NamesOf(PublicRows)
    /\ \A k \in DOMAIN invoked :
         IsAnonymous(invoked[k].caller)
         => \/ invoked[k].origin = DefaultOrigin
            \/ invoked[k].origin \in PublicRows

\* The requested names, normalized, that are outside the accessible set.
Offending(requested_sources, accessible) ==
    LET requested == MapNormalize(SelectSeq(requested_sources, NotBlank))
        Outside(name) == name \notin accessible
    IN SelectSeq(requested, Outside)

\* C10: when a requested name, normalized, is outside the caller's accessible set,
\* the search fails as a whole with an authorization error (401 or 403) that lists
\* every offending name, and no adapter is searched; a search goes on to its adapters
\* only when no requested name is offending.
C10_ForbiddenFailsWhole ==
    /\ (apiResponse.op = "search" /\ apiResponse.error # "Invalid token")
       => /\ apiResponse.accessible \subseteq AccessibleNames(apiResponse.authorization)
          /\ IF Offending(apiResponse.requested, apiResponse.accessible) # <<>>
             THEN /\ apiResponse.code \in {401, 403}
                  /\ apiResponse.detail = Offending(apiResponse.requested, apiResponse.accessible)
                  /\ invoked = <<>>
             ELSE apiResponse.code = 200
    /\ searchReq.pc = "dispatch"
       => Offending(searchReq.requested, searchReq.accessible) = <<>>

\* A search for a permitted and a forbidden source was refused to an authenticated
\* caller, naming the forbidden one, and the permitted one was not searched.
C10_Witness ==
    /\ apiResponse.op = "search"
    /\ apiResponse.code = 403
    /\ apiResponse.requested = <<NameWikidata, NameLabSpaced>>
    /\ apiResponse.detail = <<NameLabKey>>
    /\ KeyWikidata \in apiResponse.accessible
    /\ invoked = <<>>

\* The names, normalized, of the rows of the store: what some authenticated caller
\* (a superuser) is listed.
StoredNames == NamesOf(DOMAIN sourceRows)

\* C11: a search refused for forbidden requested sources is answered 401 when the
\* caller is anonymous and an offending name is the name of a stored source, which
\* an authenticated caller could be shown; it is answered 403 in every other case
\* (authenticated caller, or anonymous caller whose offending names are no source's).
C11_ForbiddenStatus ==
    (apiResponse.op = "search" /\ apiResponse.detail # <<>>)
    => apiResponse.code =
         IF /\ IsAnonymous(apiResponse.authorization)
            /\ \E k \in DOMAIN apiResponse.detail : apiResponse.detail[k] \in StoredNames
         THEN 401
         ELSE 403

-----------------------------------------------------------------------------
(* Public sources and the capability snapshot: what the contract says.     *)

\* The set of the entries of a list.
Range(list) == {list[k] : k \in DOMAIN list}

\* The domain list holds * or public, trimmed and whatever the case.
HasPublicDomain(record) ==
    \E d \in record.security_policy.query_domains : Lower(Strip(d)) \in {DomainStar, DomainPublic}

\* The four ways in which a source record is public.
ClaimedPublic(record) ==
    \/ record.security_policy.is_public = "True"
    \/ HasPublicDomain(record)
    \/ Lower(Strip(record.type)) = TypeOls /\ record.security_policy.is_public # "False"
    \/ normalize_source_name(record.name) = KeyWikidata

\* C12: a source record is classified public exactly when its policy has is_public
\* true, or its query domains hold * or public (trimmed, any case), or its type is
\* ols and is_public is not false, or its normalized name is wikidata; a caller
\* without token is listed the sources classified public and no other.
C12_PublicClassification ==
    /\ \A i \in DOMAIN sourceRows :
         is_public_source_record(sourceRows[i]) <=> ClaimedPublic(sourceRows[i])
    /\ (/\ apiResponse.op = "data_sources"
        /\ IsAnonymous(apiResponse.authorization)
        /\ apiResponse.ok)
       => apiResponse.names =
            Sorted({normalize_source_name(sourceRows[i].name) :
                      i \in {j \in DOMAIN sourceRows : ClaimedPublic(sourceRows[j])}})

\* A caller without token was listed a source whose policy says is_public false but
\* whose domains hold *, and was not listed an ols source with is_public false.
C12_Witness ==
    /\ apiResponse.op = "data_sources"
    /\ IsAnonymous(apiResponse.authorization)
    /\ apiResponse.ok
    /\ \E i \in DOMAIN sourceRows :
         /\ Lower(Strip(sourceRows[i].type)) = TypeOls
         /\ sourceRows[i].security_policy.is_public = "False"
         /\ normalize_source_name(sourceRows[i].name) \notin Range(apiResponse.names)
    /\ \E i \in DOMAIN sourceRows :
         /\ sourceRows[i].security_policy.is_public = "False"
         /\ DomainStar \in sourceRows[i].security_policy.query_domains
         /\ normalize_source_name(sourceRows[i].name) \in Range(apiResponse.names)

\* A snapshot was answered (the token, if any, was valid).
IsSnapshot == apiResponse.op = "capabilities" /\ apiResponse.snapshot.code = 200

\* The records of the store's answer to the capabilities request.
AnswerRecords == {sourceRows[i] : i \in Range(apiResponse.answer)}

\* The names of the listed sources, normalized, the empty one left out.
AnswerNames == {normalize_source_name(r.name) : r \in AnswerRecords} \ {<<>>}

\* C13 as stated: a listed source is in `public` exactly when its policy marks it
\* public, or its domain list holds * or public, or it is the well-known wikidata.
C13_PublicWithoutDefaultKind ==
    IsSnapshot
    => \A n \in AnswerNames :
         n \in Range(apiResponse.snapshot.sources.public)
         <=> \E r \in AnswerRecords :
               /\ normalize_source_name(r.name) = n
               /\ \/ r.security_policy.is_public = "True"
                  \/ HasPublicDomain(r)
                  \/ n = KeyWikidata

\* C13: the `public` list of the snapshot holds exactly the normalized names of the
\* listed sources whose policy marks them public, or whose domain list holds * or
\* public, or whose type is ols without is_public false, or that are named wikidata.
C13_PublicList ==
    IsSnapshot
    => /\ Range(apiResponse.snapshot.sources.public) \subseteq AnswerNames
       /\ \A n \in AnswerNames :
            n \in Range(apiResponse.snapshot.sources.public)
            <=> \E r \in AnswerRecords : normalize_source_name(r.name) = n /\ ClaimedPublic(r)

\* A snapshot lists an ols source as public that neither its flag, nor its domains,
\* nor its name make public, next to a source that it does not list as public.
C13_Witness ==
    /\ IsSnapshot
    /\ \E r \in AnswerRecords :
         /\ normalize_source_name(r.name) \in Range(apiResponse.snapshot.sources.public)
         /\ Lower(Strip(r.type)) = TypeOls
         /\ r.security_policy.is_public # "True"
         /\ ~HasPublicDomain(r)
    /\ \E n \in AnswerNames : n \notin Range(apiResponse.snapshot.sources.public)

\* C14: a caller without token is answered mode demo, authenticated false, no user,
\* no private name, accessible = public and neither can_write_back nor
\* can_manage_sources, whatever records the store lists.
C14_AnonymousIsDemo ==
    (apiResponse.op = "capabilities" /\ IsAnonymous(apiResponse.authorization))
    => /\ apiResponse.snapshot.code = 200
       /\ apiResponse.snapshot.mode = "demo"
       /\ ~apiResponse.snapshot.authenticated
       /\ apiResponse.snapshot.user = Null
       /\ apiResponse.snapshot.sources.private = <<>>
       /\ apiResponse.snapshot.sources.accessible = apiResponse.snapshot.sources.public
       /\ ~apiResponse.snapshot.features.can_write_back
       /\ ~apiResponse.snapshot.features.can_manage_sources

\* A caller without token asked while the store listed a private source with
\* write-back and can_admin.
C14_Witness ==
    /\ apiResponse.op = "capabilities"
    /\ IsAnonymous(apiResponse.authorization)
    /\ \E r \in AnswerRecords :
         /\ ~ClaimedPublic(r)
         /\ normalize_source_name(r.name) \notin Range(apiResponse.snapshot.sources.public)
         /\ r.allow_write_back /\ r.can_admin

\* C15: for a caller with a valid token can_write_back is true exactly when a listed
\* source has write-back and grants admin or manage itself; the mode is integrated
\* and accessible is the ascending list of the normalized names of the listed sources.
C15_WriteBackOnSameSource ==
    (IsSnapshot /\ ~IsAnonymous(apiResponse.authorization))
    => /\ apiResponse.snapshot.features.can_write_back
          <=> \E r \in AnswerRecords : r.allow_write_back /\ (r.can_admin \/ r.can_manage)
       /\ apiResponse.snapshot.mode = "integrated"
       /\ apiResponse.snapshot.authenticated
       /\ apiResponse.snapshot.sources.accessible = Sorted(AnswerNames)

\* A caller with a valid token is listed a source with write-back but no admin or
\* manage on it and a source with admin but no write-back: can_write_back is false.
C15_Witness ==
    /\ IsSnapshot
    /\ ~IsAnonymous(apiResponse.authorization)
    /\ \E r \in AnswerRecords : r.allow_write_back /\ ~r.can_admin /\ ~r.can_manage
    /\ \E r \in AnswerRecords : r.can_admin /\ ~r.allow_write_back
    /\ ~apiResponse.snapshot.features.can_write_back
    /\ apiResponse.snapshot.features.can_manage_sources

\* The list is in ascending order without duplicate.
Ascending(list) == \A i, j \in DOMAIN list : i < j => LexLess(list[i], list[j])

\* C16: the snapshot is a function of the caller and of the set of listed records:
\* any order of the store's answer and any header of the same caller give the
\* snapshot answered, whatever the registry holds and whatever was asked before;
\* each list of names is ascending without duplicate, public and private are
\* disjoint, and for a caller with a valid token their union is accessible.
C16_SnapshotIsFunction ==
    IsSnapshot
    => /\ \A order \in Orders(Range(apiResponse.answer)) :
            \A authorization \in AuthHeaders :
               resolve_request_user(authorization) = resolve_request_user(apiResponse.authorization)
               => get_capabilities(authorization, [k \in DOMAIN order |-> sourceRows[order[k]]])
                    = apiResponse.snapshot
       /\ Ascending(apiResponse.snapshot.sources.public)
       /\ Ascending(apiResponse.snapshot.sources.private)
       /\ Ascending(apiResponse.snapshot.sources.accessible)
       /\ Range(apiResponse.snapshot.sources.public)
            \cap Range(apiResponse.snapshot.sources.private) = {}
       /\ ~IsAnonymous(apiResponse.authorization)
          => Range(apiResponse.snapshot.sources.public)
               \cup Range(apiResponse.snapshot.sources.private)
             = Range(apiResponse.snapshot.sources.accessible)

\* A caller with a valid token was answered a public and a private name while the store
\* listed the records in descending order of name and an earlier request had built
\* an adapter.
C16_Witness ==
    /\ IsSnapshot
    /\ ~IsAnonymous(apiResponse.authorization)
    /\ Len(apiResponse.answer) = 2
    /\ LexLess(normalize_source_name(sourceRows[apiResponse.answer[2]].name),
               normalize_source_name(sourceRows[apiResponse.answer[1]].name))
    /\ apiResponse.snapshot.sources.public # <<>>
    /\ apiResponse.snapshot.sources.private # <<>>
    /\ adapters # DefaultAdapters

-----------------------------------------------------------------------------
(* The fan-out of the multi-source search: what the contract says.         *)

\* A search was answered with results.
IsSearchAnswer == apiResponse.op = "search" /\ apiResponse.code = 200

HasAdapter(source) == source \in DOMAIN adapters

\* How often x is an entry of the list.
Count(list, x) == Cardinality({k \in DOMAIN list : list[k] = x})

\* The results of the searches that did not fail, in the order of the calls.
RECURSIVE SucceededResults(_)
SucceededResults(trace) ==
    IF trace = <<>> THEN <<>>
    ELSE (IF Head(trace).raised THEN <<>> ELSE backends[Head(trace).source].results)
         \o SucceededResults(Tail(trace))

\* Every result of a search that did not fail is in the answer, as far as the
\* limit leaves room, and nothing else is.
HoldsSucceeded(results, limit) ==
    LET expected == SucceededResults(invoked) IN
    /\ \A k \in DOMAIN results : Count(results, results[k]) <= Count(expected, results[k])
    /\ Len(results) = (IF Len(expected) < limit THEN Len(expected) ELSE limit)

C18_SortedAndCut ==
    IsSearchAnswer
    => LET results == apiResponse.results
           aggregated == SucceededResults(invoked)
       IN /\ Len(results) <= apiResponse.limit
          /\ HoldsSucceeded(results, apiResponse.limit)
          /\ \A i, j \in DOMAIN results :
               i < j => OrZero(results[i].confidence) >= OrZero(results[j].confidence)
          /\ \A k \in DOMAIN aggregated :
               Count(results, aggregated[k]) < Count(aggregated, aggregated[k])
               => \A i \in DOMAIN results :
                    OrZero(aggregated[k].confidence) <= OrZero(results[i].confidence)

\* Two sources answered more results than the limit, the best of them from the
\* source searched last: the answer starts with it and leaves others out.
C18_Witness ==
    /\ IsSearchAnswer
    /\ Len(invoked) = 2
    /\ Len(SucceededResults(invoked)) > apiResponse.limit
    /\ Len(apiResponse.results) = apiResponse.limit
    /\ apiResponse.results[1] \in Range(backends[invoked[2].source].results)
    /\ OrZero(apiResponse.results[1].confidence)
         > OrZero(SucceededResults(invoked)[1].confidence)

-----------------------------------------------------------------------------
\* The answer of the API to a query on a source that the caller was given.
IsQueryAnswer ==
    /\ apiResponse # NoResponse
    /\ apiResponse.op = "query"
    /\ apiResponse.reachable
    /\ validate_user_token(apiResponse.token) # "401"
    /\ apiResponse.source_id \in userAccess

\* The query went to the handler of the type of its source and not to the adapter
\* search.
Dispatched ==
    /\ Upper(apiResponse.query_type) # WordSearch
    /\ ~StartsWith(Lower(apiResponse.query), SearchMarker)

HasSemicolon(text) == \E i \in DOMAIN text : text[i] = ";"

\* The text begins with SELECT: in any case, after any leading whitespace.
BeginsWithSelect(text) == StartsWith(Lower(LStrip(text)), WordSelect)

SingleSelect(text) == BeginsWithSelect(text) /\ ~HasSemicolon(text)

SqlCalls(outbound) == {k \in DOMAIN outbound : outbound[k].target = "sql-query"}

\* C19: for the internal relational backend (a django_db source of the API, and the
\* sql-query endpoint of Django behind it), a query text that contains a semicolon or
\* does not begin with SELECT is answered an error, the API sends no call to the
\* sql-query endpoint and Django gives no statement to the database; every statement
\* that is executed is a SELECT without a semicolon, run under the statement timeout.
C19_OnlySingleSelectExecuted ==
    /\ (IsQueryAnswer /\ Dispatched
            /\ sourceRows[apiResponse.source_id].type = TypeDjangoDb) =>
          /\ ~SingleSelect(apiResponse.query) =>
                /\ apiResponse.error # ""
                /\ SqlCalls(apiResponse.outbound) = {}
                /\ apiResponse.executed = <<>>
          /\ \A k \in DOMAIN apiResponse.outbound : SingleSelect(apiResponse.outbound[k].content)
          /\ \A k \in DOMAIN apiResponse.executed :
                /\ SingleSelect(apiResponse.executed[k].sql)
                /\ apiResponse.executed[k].timeout = StatementTimeout
    /\ (djResponse # NoResponse /\ djResponse.op = "sql_query") =>
          /\ (djResponse.body.json /\ djResponse.body.sql # AbsentText
                  /\ ~SingleSelect(djResponse.body.sql)) =>
                /\ djResponse.code # 200
                /\ djResponse.error # ""
                /\ djResponse.executed = <<>>
          /\ \A k \in DOMAIN djResponse.executed :
                /\ SingleSelect(djResponse.executed[k].sql)
                /\ djResponse.executed[k].timeout = StatementTimeout

\* Two statements were sent to a django_db source and were refused without a call.
C19_Witness ==
    /\ IsQueryAnswer /\ Dispatched
    /\ sourceRows[apiResponse.source_id].type = TypeDjangoDb
    /\ apiResponse.query = QueryTwoStatements
    /\ apiResponse.error = "Unsupported query"
    /\ apiResponse.outbound = <<>>

\* Two statements were sent to Django itself with the key and were refused.
C19_DjangoRefuses ==
    /\ djResponse # NoResponse /\ djResponse.op = "sql_query"
    /\ djResponse.key = internalKey
    /\ djResponse.body.json /\ djResponse.body.sql = QueryTwoStatements
    /\ djResponse.error = "Multiple statements are not allowed"
    /\ djResponse.executed = <<>>

\* A SELECT was sent to a django_db source and the database ran it.
C19_Executed ==
    /\ IsQueryAnswer /\ Dispatched
    /\ sourceRows[apiResponse.source_id].type = TypeDjangoDb
    /\ apiResponse.error = ""
    /\ Len(apiResponse.executed) = 1

\* The admin-gated terms of a source, as they are compared: in lower case, without
\* the whitespace around them, a blank being no term.
GatedTerms(source) ==
    LET terms == admin_only_terms(source.security_policy) IN
    {Lower(Strip(terms[k])) : k \in DOMAIN terms} \ {<<>>}

MentionsGatedTerm(text, source) ==
    \E term \in GatedTerms(source) : Contains(Lower(text), term)

\* C20: a SPARQL query on an ontop source whose text contains an admin-gated term of
\* the source in any case, from a caller without admin rights on the source, is
\* answered "Ontop policy restriction" and no call goes out; a caller with admin
\* rights on the source is never answered that error.
C20_AdminGatedTerms ==
    (IsQueryAnswer /\ Dispatched /\ sourceRows[apiResponse.source_id].type = TypeOntop) =>
        LET source == sourceRows[apiResponse.source_id] IN
        /\ (is_sparql_query(apiResponse.query) /\ ~source.can_admin
                /\ MentionsGatedTerm(apiResponse.query, source)) =>
              /\ apiResponse.error = "Ontop policy restriction"
              /\ apiResponse.outbound = <<>>
        /\ source.can_admin => apiResponse.error # "Ontop policy restriction"

\* A caller without admin rights asked for SALARY where " Salary " is gated, and was
\* refused.
C20_Witness ==
    /\ IsQueryAnswer /\ Dispatched
    /\ sourceRows[apiResponse.source_id].type = TypeOntop
    /\ ~sourceRows[apiResponse.source_id].can_admin
    /\ apiResponse.query = QuerySalary
    /\ apiResponse.error = "Ontop policy restriction"
    /\ apiResponse.outbound = <<>>

\* A caller with admin rights sent the same query and it went out to the endpoint.
C20_AdminPasses ==
    /\ IsQueryAnswer /\ Dispatched
    /\ sourceRows[apiResponse.source_id].type = TypeOntop
    /\ sourceRows[apiResponse.source_id].can_admin
    /\ apiResponse.query = QuerySalary
    /\ Len(apiResponse.outbound) = 1

-----------------------------------------------------------------------------
\* C21: every answer of the unified query endpoint is a success envelope with
\* results, total, source_type and status, or an error envelope with both error and
\* detail.
C21_ErrorsCarryDetail ==
    (apiResponse # NoResponse /\ apiResponse.op = "query") =>
        IF apiResponse.error = "" THEN SuccessKeys \subseteq apiResponse.keys
        ELSE ErrorKeys \subseteq apiResponse.keys

\* The errors of the handlers and the transport error do carry error and detail.
C21_HandlerErrorsCarryDetail ==
    (apiResponse # NoResponse /\ apiResponse.op = "query"
        /\ apiResponse.error \notin {"", "Invalid token",
                                     "Data source not found or inaccessible"}) =>
        ErrorKeys \subseteq apiResponse.keys

C21_ServiceUnavailable ==
    /\ apiResponse # NoResponse /\ apiResponse.op = "query"
    /\ apiResponse.error = "Service unavailable"
    /\ apiResponse.keys = ErrorKeys

-----------------------------------------------------------------------------
\* C22: after any sequence of source creations no two sources of the store (all of
\* them active) share a normalized key.
C22_UniqueNormalizedKey ==
    \A i, j \in DOMAIN sourceRows :
        i # j => normalize_source_name(sourceRows[i].name)
                     # normalize_source_name(sourceRows[j].name)

\* What the creation does keep unique is the name as it is stored (trimmed).
C22_UniqueStoredName ==
    \A i, j \in DOMAIN sourceRows : i # j => sourceRows[i].name # sourceRows[j].name

\* A source was created whose name differs from a stored one only by case.
C22_SharedKeyCreated ==
    /\ djResponse # NoResponse /\ djResponse.op = "create_source" /\ djResponse.code = 201
    /\ \E i \in DOMAIN sourceRows :
          /\ i # Len(sourceRows)
          /\ normalize_source_name(sourceRows[i].name)
                = normalize_source_name(sourceRows[Len(sourceRows)].name)

-----------------------------------------------------------------------------
\* The type of the record maps to an adapter class (fuseki as oxigraph).
KnownAdapterKind(source) ==
    (IF source.type = TypeFuseki THEN TypeOxigraph ELSE source.type) \in AdapterClasses

\* A query was answered in this step for a source that was fetched for the caller,
\* so that _ensure_adapter_for_source was called on its record.
EnsuredInStep ==
    /\ apiResponse = NoResponse /\ apiResponse' # NoResponse
    /\ apiResponse'.op = "query" /\ apiResponse'.reachable
    /\ validate_user_token(apiResponse'.token) # "401"
    /\ apiResponse'.source_id \in userAccess

\* C23: a call of get-or-create for a record whose key is registered leaves the
\* registry as it is, whatever the record; for a key that is not registered and a
\* type of a known adapter kind it registers exactly one adapter, built from that
\* record, under the key; for an unknown type it registers nothing, and the lookup
\* of the key that follows fails.
C23_GetOrCreateIdempotent ==
    [][EnsuredInStep =>
         LET pk == apiResponse'.source_id
             source == sourceRows[pk]
             key == normalize_source_name(source.name)
         IN IF key \in DOMAIN adapters THEN adapters' = adapters
            ELSE IF KnownAdapterKind(source) /\ key # <<>>
            THEN adapters' = adapters @@ (key :> pk)
            ELSE /\ adapters' = adapters
                 /\ ~Dispatched' => /\ apiResponse'.error = "Search failed"
                                    /\ apiResponse'.outbound = <<>>]_vars

\* A record was queried whose key holds the adapter built from another record.
C23_Witness ==
    /\ IsQueryAnswer
    /\ LET key == normalize_source_name(sourceRows[apiResponse.source_id].name) IN
       /\ key \in DOMAIN adapters
       /\ adapters[key] \notin {DefaultOrigin, apiResponse.source_id}

\* A record of an unknown type was searched: nothing is registered under its key.
C23_UnknownTypeNotFound ==
    /\ IsQueryAnswer /\ ~Dispatched
    /\ sourceRows[apiResponse.source_id].type = TypeCsv
    /\ normalize_source_name(sourceRows[apiResponse.source_id].name) \notin DOMAIN adapters
    /\ apiResponse.error = "Search failed"

-----------------------------------------------------------------------------
\* The keys of the registry whose adapter was built from a record of the store.
BuiltKeys == {k \in DOMAIN adapters : adapters[k] # DefaultOrigin}

\* C24: in every state of the registry every key is a normalized source name, the
\* adapter that was built for a source is registered under the normalized name of
\* that source, and no source is registered under two keys.
C24_KeysNormalized ==
    /\ \A k \in DOMAIN adapters : normalize_source_name(k) = k
    /\ \A k \in BuiltKeys : k = normalize_source_name(sourceRows[adapters[k]].name)
    /\ \A k1, k2 \in BuiltKeys : adapters[k1] = adapters[k2] => k1 = k2

\* A source is registered under its stored name and under its normalized name.
C24_TwoKeys ==
    \E k1, k2 \in BuiltKeys : k1 # k2 /\ adapters[k1] = adapters[k2]

\* C25: the adapter that the lookup of a source's normalized name yields was built
\* from the configuration that the store holds for the source now.
C25_AdapterOfCurrentConfig ==
    \A i \in DOMAIN sourceRows :
        LET key == normalize_source_name(sourceRows[i].name) IN
        (key \in DOMAIN adapters /\ adapters[key] = i) =>
            adapterConfigs[key] = EndpointOf(sourceRows[i])

\* The adapter of an updated source is searched and holds the old endpoint_url.
C25_StaleAdapterSearched ==
    /\ invoked # <<>>
    /\ LET e == invoked[Len(invoked)] IN
       /\ e.origin # DefaultOrigin
       /\ e.source \in DOMAIN adapterConfigs
       /\ adapters[e.source] = e.origin
       /\ adapterConfigs[e.source] = EndpointStored
       /\ EndpointOf(sourceRows[e.origin]) = EndpointSent

\* The sources of the request in flight that are still to be looked up.
PendingSources ==
    IF searchReq.pc = "dispatch"
    THEN {searchReq.sources[k] : k \in searchReq.next..Len(searchReq.sources)}
    ELSE {}

\* The resolution of the request ensured an adapter for the source: a record of the
\* store that an adapter can be built for normalizes to it.
WasEnsured(source) ==
    \E i \in DOMAIN sourceRows :
        Buildable(sourceRows[i]) /\ normalize_source_name(sourceRows[i].name) = source

\* C26: a search request in flight finds, at each of its later lookups, the adapter
\* of every source that it resolved and ensured an adapter for, whatever
\* re-initialization of the registry runs in between.
C26_EnsuredStillFound ==
    \A source \in PendingSources : WasEnsured(source) => source \in DOMAIN adapters

\* A request was answered after a lookup that failed for a source it had resolved.
C26_LookupFailed ==
    /\ apiResponse # NoResponse /\ apiResponse.op = "search" /\ apiResponse.code = 200
    /\ \E k \in DOMAIN apiResponse.sources :
          /\ WasEnsured(apiResponse.sources[k])
          /\ \A j \in DOMAIN invoked : invoked[j].source # apiResponse.sources[k]

-----------------------------------------------------------------------------
\* The request declares the mode SEARCH or its query starts with the marker, in any
\* case.
SearchIntent ==
    \/ Lower(apiResponse.query_type) = Lower(WordSearch)
    \/ StartsWith(Lower(apiResponse.query), SearchMarker)

Targets(outbound) == {outbound[k].target : k \in DOMAIN outbound}

\* The calls that the handler of a source type may send.
HandlerTargets(type) ==
    IF type = TypeDjangoDb THEN {"sql-query"}
    ELSE IF type \in {TypeFuseki, TypeOxigraph} THEN {"oxigraph"}
    ELSE IF type = TypeExternalApi THEN {"wikidata-sparql", "adapter"}
    ELSE IF type = TypeOntop THEN {"ontop"}
    ELSE {}

\* The errors of the handlers of the backends.
HandlerErrors ==
    {"Unsupported query", "Query failed", "Oxigraph query failed", "Unsupported API",
     "External API query failed", "Ontop policy restriction", "Ontop query failed",
     "Unsupported source"}

\* C27: a query with search intent goes to the free-text search of the adapter of
\* its source, whatever the type of the source: no statement is executed, no call
\* goes to a backend handler's endpoint and no handler error is answered; a query
\* without it sends at most one call, of the handler of its source type, and a type
\* without handler is answered "Unsupported source" without any call.
C27_SearchIntentFirst ==
    IsQueryAnswer =>
        LET source == sourceRows[apiResponse.source_id] IN
        IF SearchIntent
        THEN /\ apiResponse.executed = <<>>
             /\ Targets(apiResponse.outbound) \subseteq {"adapter"}
             /\ \A k \in DOMAIN apiResponse.outbound :
                   apiResponse.outbound[k].content = normalize_source_name(source.name)
             /\ apiResponse.error \notin HandlerErrors
        ELSE /\ Len(apiResponse.outbound) <= 1
             /\ Targets(apiResponse.outbound) \subseteq HandlerTargets(source.type)
             /\ HandlerTargets(source.type) = {} =>
                   apiResponse.error = "Unsupported source"
             /\ apiResponse.error = "Unsupported source" =>
                   HandlerTargets(source.type) = {} /\ apiResponse.outbound = <<>>

\* A query that names an admin-only term was sent with the mode search to an ontop
\* source by a caller without admin rights: the adapter of the source was searched.
C27_Witness ==
    /\ IsQueryAnswer /\ SearchIntent
    /\ sourceRows[apiResponse.source_id].type = TypeOntop
    /\ ~sourceRows[apiResponse.source_id].can_admin
    /\ apiResponse.query = QuerySalary
    /\ apiResponse.error = ""
    /\ Targets(apiResponse.outbound) = {"adapter"}

\* A source of a type without handler was queried.
C27_UnsupportedSource ==
    /\ IsQueryAnswer /\ ~SearchIntent
    /\ apiResponse.error = "Unsupported source"
    /\ apiResponse.outbound = <<>>

-----------------------------------------------------------------------------
\* The effective admin-only terms of a source as the claim states them: the declared
\* terms when there are any, else the declared table patterns in lower case without
\* %, * and _, the empty ones dropped.
EffectiveTerms(source) ==
    LET policy == source.security_policy IN
    IF policy.admin_only_sparql_terms # <<>> THEN Range(policy.admin_only_sparql_terms)
    ELSE {RemoveChars(Lower(pattern), {"%", "*", "_"}) :
             pattern \in Range(policy.admin_only_table_patterns)} \ {<<>>}

\* The text holds a term of the set, compared trimmed and in lower case.
MentionsTerm(text, terms) ==
    \E term \in terms : Strip(term) # <<>> /\ Contains(Lower(text), Lower(Strip(term)))

\* C28: a SPARQL query on an ontop source is refused by the policy exactly when the
\* caller has no admin rights on the source and the query holds one of the effective
\* admin-only terms: the declared terms when that list is not empty (the table
\* patterns are then not consulted), else the terms derived from the table patterns;
\* a source that declares neither refuses no query.
C28_EffectiveAdminTerms ==
    (IsQueryAnswer /\ Dispatched /\ sourceRows[apiResponse.source_id].type = TypeOntop
        /\ is_sparql_query(apiResponse.query)) =>
        LET source == sourceRows[apiResponse.source_id] IN
        /\ apiResponse.error = "Ontop policy restriction"
             <=> (~source.can_admin /\ MentionsTerm(apiResponse.query, EffectiveTerms(source)))
        /\ (source.security_policy.admin_only_sparql_terms = <<>>
              /\ source.security_policy.admin_only_table_patterns = <<>>) =>
                apiResponse.error # "Ontop policy restriction"

\* A source declares only table patterns: the query that holds the derived term
\* payroll is refused.
C28_Witness ==
    /\ IsQueryAnswer /\ Dispatched
    /\ sourceRows[apiResponse.source_id].security_policy.admin_only_sparql_terms = <<>>
    /\ sourceRows[apiResponse.source_id].security_policy.admin_only_table_patterns # <<>>
    /\ apiResponse.query = QueryPayrollPlain
    /\ apiResponse.error = "Ontop policy restriction"

\* A source declares terms and patterns: the query that holds only the term of a
\* pattern goes out.
C28_PatternsNotConsulted ==
    /\ IsQueryAnswer /\ Dispatched
    /\ sourceRows[apiResponse.source_id].security_policy.admin_only_sparql_terms # <<>>
    /\ sourceRows[apiResponse.source_id].security_policy.admin_only_table_patterns # <<>>
    /\ ~sourceRows[apiResponse.source_id].can_admin
    /\ apiResponse.query = QueryPayrollPlain
    /\ Targets(apiResponse.outbound) = {"ontop"}


-----------------------------------------------------------------------------
(* The Django handlers as a logged-in requester calls them with an          *)
(* X-User-ID header: each resolves its user with _get_effective_user first   *)
(* or before its permission check; the answer is kept with the requester,   *)
(* the header and the user the handler checked.                             *)

\* The bodies of the write-back creations made with a header.
HeaderPayloads ==
    {GoodPayload, [GoodPayload EXCEPT !.source_id = "s2"],
     [GoodPayload EXCEPT !.operation = OpDrop]}

\* GET /api/datasources/ (data_sources_list): the user handed to the listing.
DataSourcesListWithHeader ==
    /\ djResponse = NoResponse
    /\ \E requester \in ActiveUsers, xuid \in XUserIdValues :
         djResponse' = [op |-> "sources", requester |-> requester, xuid |-> xuid,
                        user |-> get_effective_user(requester, xuid), code |-> 200]
    /\ UNCHANGED <<wbRequests, now, calls, internalKey>>
    /\ UNCHANGED apiVars

\* POST /api/write-back-requests/
CreateWriteBackRequestWithHeader ==
    /\ djResponse = NoResponse
    /\ \E requester \in ActiveUsers, xuid \in XUserIdValues, payload \in HeaderPayloads :
         LET user == get_effective_user(requester, xuid)
             r == create_write_back_request(user, payload) IN
         /\ Len(wbRequests) + Len(r.rows) <= MaxRequests
         /\ wbRequests' = wbRequests \o r.rows
         /\ djResponse' = [op |-> "create", requester |-> requester, xuid |-> xuid,
                           user |-> IF r.checked THEN user ELSE Absent, code |-> r.code]
    /\ UNCHANGED <<now, calls, internalKey>>
    /\ UNCHANGED apiVars

\* GET /api/write-back-requests/list/
WriteBackRequestsListWithHeader ==
    /\ djResponse = NoResponse
    /\ \E requester \in ActiveUsers, xuid \in XUserIdValues :
         LET user == get_effective_user(requester, xuid) IN
         djResponse' = [op |-> "list", requester |-> requester, xuid |-> xuid,
                        user |-> user, code |-> 200,
                        ids |-> write_back_requests_list(user, wbRequests)]
    /\ UNCHANGED <<wbRequests, now, calls, internalKey>>
    /\ UNCHANGED apiVars

\* GET /api/write-back-requests/<id>/
WriteBackRequestDetailWithHeader ==
    /\ djResponse = NoResponse
    /\ \E requester \in ActiveUsers, xuid \in XUserIdValues, request_id \in RequestIds :
         LET user == get_effective_user(requester, xuid) IN
         djResponse' = [op |-> "detail", requester |-> requester, xuid |-> xuid,
                        user |-> user, request_id |-> request_id,
                        code |-> write_back_request_detail(user, request_id, wbRequests)]
    /\ UNCHANGED <<wbRequests, now, calls, internalKey>>
    /\ UNCHANGED apiVars

\* POST /api/write-back-requests/<id>/approve/ with the body {"action": "reject"}.
ApproveWriteBackRequestWithHeader ==
    /\ djResponse = NoResponse
    /\ \E requester \in ActiveUsers, xuid \in XUserIdValues, request_id \in RequestIds :
         LET user == get_effective_user(requester, xuid)
             chk == approve_check(user, request_id, wbRequests)
             call == [op |-> "approve", requester |-> requester, xuid |-> xuid,
                      user |-> user, request_id |-> request_id]
         IN
         IF chk.code # 200
         THEN /\ djResponse' = call @@ [code |-> chk.code]
              /\ UNCHANGED <<wbRequests, now>>
         ELSE /\ now <= MaxTime
              /\ wbRequests' =
                   [wbRequests EXCEPT ![request_id] =
                      save_update_fields(@, approve_fields(ActReject, Absent, user, now))]
              /\ djResponse' = call @@ [code |-> 200]
              /\ now' = now + 1
    /\ UNCHANGED <<calls, internalKey>>
    /\ UNCHANGED apiVars

NextEffectiveUser ==
    \/ DataSourcesListWithHeader
    \/ CreateWriteBackRequestWithHeader
    \/ WriteBackRequestsListWithHeader
    \/ WriteBackRequestDetailWithHeader
    \/ ApproveWriteBackRequestWithHeader
    \/ ReturnResponse

SpecEffectiveUser == InitWriteBack /\ [][NextEffectiveUser]_vars

\* The user an X-User-ID header names, when it names an existing active user.
NamedActiveUser == (" bob " :> "bob") @@ ("carol" :> "carol")

\* The user the handlers are to act for.
ActsFor(requester, xuid) ==
    IF is_superuser(requester) /\ xuid \in DOMAIN NamedActiveUser
    THEN NamedActiveUser[xuid]
    ELSE requester

WithHeader == djResponse # NoResponse /\ "requester" \in DOMAIN djResponse

\* C29: the user a handler checks permissions for is the requester whenever the
\* requester is no superuser, whatever the X-User-ID header holds; for a superuser
\* it is the user the header names when that is an existing active user, else the
\* requester. The lists and details answered are those of that user.
C29_ImpersonationOnlyBySuperuser ==
    WithHeader =>
      LET expected == ActsFor(djResponse.requester, djResponse.xuid) IN
      /\ djResponse.user \in {expected, Absent}
      /\ djResponse.op = "list" => djResponse.ids = write_back_requests_list(expected, wbRequests)
      /\ djResponse.op = "detail" =>
           djResponse.code = write_back_request_detail(expected, djResponse.request_id, wbRequests)

\* A non-superuser sent the pk of another active user and was answered their own
\* list, which differs from the list of the user named.
C29_Witness ==
    /\ WithHeader
    /\ djResponse.op = "list"
    /\ djResponse.requester = "bob"
    /\ djResponse.xuid = "carol"
    /\ djResponse.user = "bob"
    /\ djResponse.ids # write_back_requests_list("carol", wbRequests)

\* A superuser sent the pk of another active user and the request was created as
\* that user.
C29_SuperuserActsForNamed ==
    /\ WithHeader
    /\ djResponse.op = "create"
    /\ djResponse.requester = "root"
    /\ djResponse.xuid = " bob "
    /\ djResponse.user = "bob"
    /\ djResponse.code = 201
    /\ wbRequests[Len(wbRequests)].requested_by = "bob"

\* A superuser sent the pk of an inactive user and was served as themselves.
C29_SuperuserInactiveTarget ==
    /\ WithHeader
    /\ djResponse.requester = "root"
    /\ djResponse.xuid = "dave"
    /\ djResponse.user = "root"


-----------------------------------------------------------------------------
(* The internal endpoints of Django: validate_jwt, sql_query, sql_execute.  *)

\* The tokens a body may hold: none, an empty one, the access token of the active
\* user alice, of the inactive user dave, one without a user_id claim, and one that
\* AccessToken rejects with TokenError.
JwtTokens == {Absent, "", "jwt_alice", "jwt_dave", "jwt_nouser", "jwt_bad"}
JwtBodies == {[json |-> FALSE]} \cup [json : {TRUE}, token : JwtTokens]

\* The user_id claim of a token that AccessToken accepts.
JwtUserId ==
    [jwt_alice |-> "alice", jwt_dave |-> "dave", jwt_nouser |-> Absent]

\* The handler: the status code, the error, the user answered and the tokens it
\* handed to AccessToken.
validate_jwt(expected, header, body) ==
    IF ~has_valid_internal_key(expected, header)
    THEN [code |-> 403, error |-> "Forbidden", user_id |-> Absent, validated |-> <<>>]
    ELSE IF ~body.json
    THEN [code |-> 400, error |-> "Invalid JSON", user_id |-> Absent, validated |-> <<>>]
    ELSE IF body.token \in {Absent, ""}
    THEN [code |-> 400, error |-> "Missing token", user_id |-> Absent, validated |-> <<>>]
    ELSE IF body.token \notin DOMAIN JwtUserId
    THEN [code |-> 401, error |-> "Invalid token", user_id |-> Absent,
          validated |-> <<body.token>>]
    ELSE IF JwtUserId[body.token] = Absent
    THEN [code |-> 401, error |-> "Token missing user_id", user_id |-> Absent,
          validated |-> <<body.token>>]
    ELSE IF JwtUserId[body.token] \notin ActiveUsers
    THEN [code |-> 401, error |-> "User not found", user_id |-> Absent,
          validated |-> <<body.token>>]
    ELSE [code |-> 200, error |-> "", user_id |-> JwtUserId[body.token],
          validated |-> <<body.token>>]

\* POST /api/internal/validate-jwt/
ValidateJwt ==
    /\ djResponse = NoResponse
    /\ \E header \in InternalKeyHeaders, body \in JwtBodies :
         LET r == validate_jwt(internalKey, header, body) IN
         djResponse' = [op |-> "validate_jwt", key |-> header, body |-> body,
                        code |-> r.code, error |-> r.error, user_id |-> r.user_id,
                        validated |-> r.validated]
    /\ UNCHANGED <<wbRequests, now, calls, internalKey>>
    /\ UNCHANGED apiVars

\* The Django process with INTERNAL_API_KEY set, or unset (the default '').
InitInternal ==
    /\ wbRequests = <<>>
    /\ now = 1
    /\ calls = [c \in 1..MaxCalls |-> IdleCall]
    /\ djResponse = NoResponse
    /\ internalKey \in {"k1", ""}
    /\ InitApiQuiet

NextInternal ==
    \/ ValidateJwt
    \/ SqlQuery
    \/ SqlExecute
    \/ ReturnResponse

SpecInternal == InitInternal /\ [][NextInternal]_vars

InternalAnswer ==
    djResponse # NoResponse /\ djResponse.op \in {"validate_jwt", "sql_query", "sql_execute"}

\* The request does not prove knowledge of a configured key.
KeyRefused == internalKey = "" \/ djResponse.key # internalKey

\* C30: an internal endpoint called with a key other than the configured one, or
\* while no key is configured (an empty key sent included), answers 403 Forbidden,
\* validates no token and runs no SQL.
C30_InternalFailClosed ==
    InternalAnswer /\ KeyRefused =>
      /\ djResponse.code = 403
      /\ djResponse.error = "Forbidden"
      /\ djResponse.op = "validate_jwt" => djResponse.validated = <<>> /\ djResponse.user_id = Absent
      /\ djResponse.op = "sql_query" => djResponse.executed = <<>>

\* No key is configured and a single SELECT arrives with an empty key: refused.
C30_Witness ==
    /\ InternalAnswer
    /\ internalKey = ""
    /\ djResponse.key = ""
    /\ djResponse.op = "sql_query"
    /\ djResponse.body = [json |-> TRUE, sql |-> QuerySelect]
    /\ djResponse.code = 403

\* No key is configured and a valid token arrives without the header: refused.
C30_TokenNotValidated ==
    /\ InternalAnswer
    /\ internalKey = ""
    /\ djResponse.key = Absent
    /\ djResponse.op = "validate_jwt"
    /\ djResponse.body = [json |-> TRUE, token |-> "jwt_alice"]
    /\ djResponse.code = 403

\* With the configured key the endpoints do their work.
C30_KeyAccepted ==
    /\ InternalAnswer
    /\ djResponse.key = "k1"
    /\ djResponse.op = "validate_jwt"
    /\ djResponse.code = 200
    /\ djResponse.user_id = "alice"

====
